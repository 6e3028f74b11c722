---------------------------- MODULE PhysicsWorld1D ----------------------------
(***************************************************************************)
(* Bodies on a line, their collisions and what can be asked of them:       *)
(* PhysicsWorld1D (engine/physics/src/one_d.cpp).                          *)
(*                                                                         *)
(* Numbers are integers within -MaxNumber..MaxNumber; a result outside is  *)
(* not finite.  One step lasts one unit of time.  A collision may have to  *)
(* divide: a step in which that leaves a remainder is not `exact', and is  *)
(* left out.  Operations are functions from contents to contents, their    *)
(* guards where they succeed; a call that fails changes nothing.  A dead   *)
(* slot keeps its generation, the rest of it is never read.  Of a contact  *)
(* the two bodies are kept.  Slots are counted from one.                   *)
(***************************************************************************)
EXTENDS ContactEvents, Integers, FiniteSets

CONSTANTS Definitions,          \* BodyDefinition1D, without position and velocity
          MaxNumber,            \* std::numeric_limits<double>::max()
          MaxBodies,            \* PhysicsWorld1DConfig::maximum_bodies
          MaxContacts,          \* PhysicsWorld1DConfig::maximum_contacts_per_step
          MaxBodyGeneration,    \* std::numeric_limits<std::uint32_t>::max()
          Nothing               \* no body, no hit

BodyTypes == {"Static", "Kinematic", "Dynamic"}

Layers == {1, 2}                \* bits of collision_layer and collision_mask

ASSUME WorldAssumption ==
    /\ MaxNumber \in Nat /\ MaxBodies \in Nat \ {0} /\ MaxContacts \in Nat \ {0}
    /\ MaxBodyGeneration \in Nat \ {0}
    /\ Definitions \subseteq [type : BodyTypes, halfExtent : 1..MaxNumber, mass : 1..MaxNumber,
                              restitution : 0..1, isTrigger : BOOLEAN,
                              layer : SUBSET Layers, mask : SUBSET Layers]

IsFinite(x) == -MaxNumber <= x /\ x <= MaxNumber

Numbers == -MaxNumber..MaxNumber

Body == [definition : Definitions, position : Numbers, velocity : Numbers, force : Numbers]

Bodies == [slot : 1..MaxBodies, generation : 1..MaxBodyGeneration]

Contacts == [first : Bodies, second : Bodies]

\* A body whose numbers a step has made too large is something, too.
Unbounded == [definition : Definitions, position : Int, velocity : Int, force : Numbers]

ASSUME NothingAssumption == Nothing \notin Unbounded \cup Int \cup [slot : Nat, distance : Int]

\* slots_, free_slots_, body_count_ and previous_contacts_.
EmptyWorld == [slots |-> <<>>, free |-> <<>>, count |-> 0, contacts |-> <<>>]

Alive(w) == {i \in DOMAIN w.slots : w.slots[i].body # Nothing}

\* make_handle
HandleOf(w, i) == [slot |-> i, generation |-> w.slots[i].generation]

\* find_slot
IsBody(w, b) == b.slot \in Alive(w) /\ w.slots[b.slot].generation = b.generation

BodyOf(w, b) == w.slots[b.slot].body

LiveBodies(w) == {HandleOf(w, i) : i \in Alive(w)}
-----------------------------------------------------------------------------
(* create_body, destroy_body and the setters                               *)

\* validate_definition, for what the definitions leave open.
IsValid(definition, velocity) == definition.type = "Static" => velocity = 0

CanCreateBody(w, definition, velocity) ==
    /\ IsValid(definition, velocity)
    /\ w.count < MaxBodies /\ (w.free # <<>> \/ Len(w.slots) < MaxBodies)

NextBody(w) ==
    IF w.free # <<>> THEN HandleOf(w, Last(w.free))
    ELSE [slot |-> Len(w.slots) + 1, generation |-> 1]

WithBody(w, definition, position, velocity) ==
    LET slot == [generation |-> NextBody(w).generation,
                 body |-> [definition |-> definition, position |-> position,
                           velocity |-> velocity, force |-> 0]] IN
    IF w.free # <<>>
    THEN [w EXCEPT !.slots[Last(w.free)] = slot, !.free = Front(@), !.count = @ + 1]
    ELSE [w EXCEPT !.slots = Append(@, slot), !.count = @ + 1]

\* A slot whose generations are used up is not reused.
WithoutBody(w, b) ==
    IF b.generation = MaxBodyGeneration
    THEN [w EXCEPT !.slots[b.slot].body = Nothing, !.count = @ - 1]
    ELSE [w EXCEPT !.slots[b.slot] = [generation |-> b.generation + 1, body |-> Nothing],
                   !.free = Append(@, b.slot), !.count = @ - 1]

Positioned(w, b, position) == [w EXCEPT !.slots[b.slot].body.position = position]

CanSetVelocity(w, b, velocity) == IsValid(BodyOf(w, b).definition, velocity)

WithVelocity(w, b, velocity) == [w EXCEPT !.slots[b.slot].body.velocity = velocity]

CanApplyForce(w, b, force) ==
    BodyOf(w, b).definition.type = "Dynamic" /\ IsFinite(BodyOf(w, b).force + force)

WithForce(w, b, force) == [w EXCEPT !.slots[b.slot].body.force = @ + force]

\* The impulse is given by the change of velocity it makes.
CanApplyImpulse(w, b, change) ==
    BodyOf(w, b).definition.type = "Dynamic" /\ IsFinite(BodyOf(w, b).velocity + change)

WithImpulse(w, b, change) == [w EXCEPT !.slots[b.slot].body.velocity = @ + change]
-----------------------------------------------------------------------------
(* overlap_query and raycast                                               *)

Low(body)  == body.position - body.definition.halfExtent
High(body) == body.position + body.definition.halfExtent

IsBounded(body) == IsFinite(Low(body)) /\ IsFinite(High(body))

\* A query looks at the slot.
Sees(w, i, mask, triggers) ==
    /\ i \in Alive(w)
    /\ LET d == w.slots[i].body.definition IN (triggers \/ ~d.isTrigger) /\ d.layer \cap mask # {}

\* A collider without finite bounds fails the query, wherever it is.
CanQuery(w, mask, triggers) ==
    \A i \in DOMAIN w.slots : Sees(w, i, mask, triggers) => IsBounded(w.slots[i].body)

\* The body meets the interval, its ends included.
Meets(body, low, high) == ~(high < Low(body) \/ High(body) < low)

\* The slots that do, in order.
Overlapping(w, low, high, mask, triggers) ==
    LET matches[n \in 0..Len(w.slots)] ==
          IF n = 0 THEN <<>>
          ELSE IF Sees(w, n, mask, triggers) /\ Meets(w.slots[n].body, low, high)
          THEN Append(matches[n - 1], n) ELSE matches[n - 1]
    IN matches[Len(w.slots)]

\* How far along the ray the slot is entered, or Nothing.
EntryDistance(body, origin, direction) ==
    IF origin < Low(body) THEN IF direction < 0 THEN Nothing ELSE Low(body) - origin
    ELSE IF origin > High(body) THEN IF direction > 0 THEN Nothing ELSE origin - High(body)
    ELSE 0

\* Seeded fault: of two at the same distance the later one is taken.
BrokenNearer(distance, nearest) == nearest = Nothing \/ distance <= nearest.distance

Nearer(distance, nearest) == nearest = Nothing \/ distance < nearest.distance

\* What is nearest when slot i, at this distance, has been looked at, too.
Nearest(before, i, distance, maximum) ==
    IF distance # Nothing /\ IsFinite(distance) /\ distance <= maximum /\ Nearer(distance, before)
    THEN [slot |-> i, distance |-> distance] ELSE before

\* The nearest hit and its distance, or Nothing.
Raycast(w, origin, direction, maximum, mask, triggers) ==
    LET nearest[n \in 0..Len(w.slots)] ==
          IF n = 0 THEN Nothing
          ELSE IF Sees(w, n, mask, triggers)
          THEN Nearest(nearest[n - 1], n, EntryDistance(w.slots[n].body, origin, direction), maximum)
          ELSE nearest[n - 1]
    IN nearest[Len(w.slots)]
-----------------------------------------------------------------------------
(* step                                                                    *)

Integrated(body, gravity) ==
    LET velocity == IF body.definition.type = "Dynamic"
                    THEN body.velocity + gravity + (body.force \div body.definition.mass)
                    ELSE body.velocity IN
    [body EXCEPT !.velocity = velocity, !.force = 0,
                 !.position = IF body.definition.type = "Static" THEN @ ELSE @ + velocity]

\* The slots after the integration, and what it may leave.
Integration(w, gravity) ==
    [i \in DOMAIN w.slots |->
        IF i \in Alive(w) THEN Integrated(w.slots[i].body, gravity) ELSE Nothing]

IsExact(w) ==
    \A i \in Alive(w) : w.slots[i].body.force % w.slots[i].body.definition.mass = 0

AllFinite(bodies) ==
    \A i \in DOMAIN bodies :
        bodies[i] # Nothing => IsFinite(bodies[i].position) /\ IsFinite(bodies[i].velocity)

Filtered(d, e) == d.layer \cap e.mask = {} \/ e.layer \cap d.mask = {}

\* inverse_mass / inverse_mass_sum of a body in a pair, as a fraction.
Share(d, e) ==
    CASE d.type # "Dynamic" -> [of |-> 0, over |-> 1]
      [] d.type = "Dynamic" /\ e.type # "Dynamic" -> [of |-> 1, over |-> 1]
      [] OTHER -> [of |-> e.mass, over |-> d.mass + e.mass]

Part(x, share) == (x * share.of) \div share.over

MinOf(x, y) == IF x <= y THEN x ELSE y
MaxOf(x, y) == IF x >= y THEN x ELSE y

Depth(a, b) == MinOf(High(a), High(b)) - MaxOf(Low(a), Low(b))

Normal(a, b) == IF b.position >= a.position THEN 1 ELSE -1

\* The change of the relative velocity, 0 unless they approach.
Closing(a, b) ==
    LET relative == (b.velocity - a.velocity) * Normal(a, b) IN
    IF relative < 0
    THEN -(1 + MinOf(a.definition.restitution, b.definition.restitution)) * relative ELSE 0

\* A body's share of the separation and of the change of velocity.
Pushed(body, share, away, depth, closing) ==
    [body EXCEPT !.position = @ + away * Part(depth, share),
                 !.velocity = @ + away * Part(closing, share)]

Divides(share, x) == (x * share.of) % share.over = 0

IsTriggerPair(a, b) == a.definition.isTrigger \/ b.definition.isTrigger

\* Both bodies after their collision.
Responded(s, i, j) ==
    LET a == s.bodies[i]
        b == s.bodies[j]
        shares == <<Share(a.definition, b.definition), Share(b.definition, a.definition)>> IN
    [s EXCEPT !.bodies[i] = Pushed(a, shares[1], -Normal(a, b), Depth(a, b), Closing(a, b)),
              !.bodies[j] = Pushed(b, shares[2], Normal(a, b), Depth(a, b), Closing(a, b)),
              !.outcome = IF \A x \in {Depth(a, b), Closing(a, b)}, k \in 1..2 : Divides(shares[k], x)
                          THEN "ok" ELSE "inexact"]

\* One pair of slots, in the working state `s' that earlier pairs left:
\* nothing, a failure of the step, or a contact with its response.
Resolved(s, i, j) ==
    LET a == s.bodies[i]
        b == s.bodies[j]
        failed == [s EXCEPT !.outcome = "failed"]
        met == [s EXCEPT !.contacts = Append(@, <<i, j>>)] IN
    IF s.outcome # "ok" \/ a = Nothing \/ b = Nothing THEN s
    ELSE IF ~IsBounded(a) THEN failed
    ELSE IF Filtered(a.definition, b.definition) THEN s
    ELSE IF ~IsBounded(b) \/ ~IsFinite(Depth(a, b)) THEN failed
    ELSE IF Depth(a, b) < 0 THEN s
    ELSE IF Len(s.contacts) >= MaxContacts THEN failed
    ELSE IF IsTriggerPair(a, b) THEN met
    ELSE Responded(met, i, j)

Unresolved(bodies) == [bodies |-> bodies, contacts |-> <<>>, outcome |-> "ok"]

\* Seeded fault: the bounds of all bodies are taken before any is moved.
BrokenCollided(bodies) ==
    LET all == Len(bodies)
        Stale(s, i, j) ==
          LET now == Resolved([s EXCEPT !.bodies = bodies], i, j) IN
          IF now.contacts = s.contacts THEN s ELSE Resolved(s, i, j)
        Row(s, i) == LET inner[j \in i..all] == IF j = i THEN s ELSE Stale(inner[j - 1], i, j)
                     IN inner[all]
        outer[i \in 0..all] == IF i = 0 THEN Unresolved(bodies) ELSE Row(outer[i - 1], i)
    IN outer[all]

\* The inner loop: slot i against all the later ones.
Against(s, i, all) ==
    LET inner[j \in i..all] == IF j = i THEN s ELSE Resolved(inner[j - 1], i, j)
    IN inner[all]

\* Every pair, each on what the ones before it left.
Collided(bodies) ==
    LET all == Len(bodies)
        outer[i \in 0..all] == IF i = 0 THEN Unresolved(bodies) ELSE Against(outer[i - 1], i, all)
    IN outer[all]

Simulated(w, gravity) == Collided(Integration(w, gravity))

\* The step succeeds, as far as numbers and limits are concerned.
CanStep(w, gravity, simulated) ==
    /\ IsExact(w) /\ AllFinite(Integration(w, gravity))
    /\ simulated.outcome = "ok" /\ AllFinite(simulated.bodies)

\* History and bodies are replaced when everything else has succeeded.
Stepped(w, simulated) ==
    [w EXCEPT !.slots = [i \in DOMAIN w.slots |-> [w.slots[i] EXCEPT !.body = simulated.bodies[i]]],
              !.contacts = [n \in DOMAIN simulated.contacts |->
                               [first  |-> HandleOf(w, simulated.contacts[n][1]),
                                second |-> HandleOf(w, simulated.contacts[n][2])]]]
-----------------------------------------------------------------------------
WorldTypeOK(w) ==
    /\ \A i \in DOMAIN w.slots :
          w.slots[i] \in [generation : 1..MaxBodyGeneration, body : Body \cup {Nothing}]
    /\ Len(w.slots) <= MaxBodies /\ w.free \in Seq(DOMAIN w.slots) /\ IsInjective(w.free)
    /\ w.contacts \in Seq(Contacts) /\ Len(w.contacts) <= MaxContacts
    /\ w.count = Cardinality(Alive(w))

\* Both queries look at the interval from `origin' over `length'.
Swept(w, origin, direction, length, mask, triggers) ==
    LET end == origin + direction * length IN
    Overlapping(w, MinOf(origin, end), MaxOf(origin, end), mask, triggers)

\* What queries do not read is nothing: enough worlds to ask.
IsAtRest(w) ==
    w.contacts = <<>> /\ \A i \in Alive(w) : w.slots[i].body.velocity = 0 /\ w.slots[i].body.force = 0

\* The two queries agree: a ray hits exactly if something lies on its way,
\* it hits the first body there, the one in the lowest slot of several, and
\* nothing lies before the hit.
QueriesAgreeIn(w, origin, direction, maximum, mask, triggers) ==
    LET hit == Raycast(w, origin, direction, maximum, mask, triggers)
        On(length) == Swept(w, origin, direction, length, mask, triggers) IN
    IF hit = Nothing THEN On(maximum) = <<>>
    ELSE /\ hit.distance <= maximum /\ hit.slot = Head(On(hit.distance))
         /\ hit.distance > 0 => On(hit.distance - 1) = <<>>

Sum(f(_), S) == FoldLeft(LAMBDA total, i : total + f(i), 0, SetToSeq(S))

OfType(w, type) == {i \in Alive(w) : w.slots[i].body.definition.type = type}

Momentum(bodies, S) ==
    LET Of(i) == bodies[i].definition.mass * bodies[i].velocity IN Sum(Of, S)

Energy(bodies, S) ==
    LET Of(i) == bodies[i].definition.mass * bodies[i].velocity * bodies[i].velocity IN Sum(Of, S)

\* Where two bodies overlap after the step, a later pair has pushed one of
\* them: none is left overlapping by its own pair, and none unnoticed.
OverlapsAreLate(simulated) ==
    LET bodies == simulated.bodies
        present == {i \in DOMAIN bodies : bodies[i] # Nothing}
        Collides(i, j) ==
            /\ ~Filtered(bodies[i].definition, bodies[j].definition)
            /\ ~IsTriggerPair(bodies[i], bodies[j])
            /\ "Dynamic" \in {bodies[i].definition.type, bodies[j].definition.type} IN
    \A i, j \in present :
        i < j /\ Collides(i, j) /\ Depth(bodies[i], bodies[j]) > 0 =>
            \E p \in ToSet(simulated.contacts) :
                /\ p[1] > i \/ (p[1] = i /\ p[2] > j)
                /\ {p[1], p[2]} \cap {i, j} # {} /\ Collides(p[1], p[2])

\* The sequence of collisions in one step makes no momentum, unless one of
\* the bodies is not dynamic, and no energy, unless a kinematic body drives
\* them; and it leaves no overlap that it could have seen.
CollisionsResolveIn(w, gravity) ==
    LET before    == Integration(w, gravity)
        simulated == Simulated(w, gravity)
        after     == simulated.bodies
        dynamic   == OfType(w, "Dynamic") IN
    CanStep(w, gravity, simulated) =>
        /\ dynamic = Alive(w) => Momentum(after, dynamic) = Momentum(before, dynamic)
        /\ OfType(w, "Kinematic") = {} => Energy(after, dynamic) <= Energy(before, dynamic)
        /\ OverlapsAreLate(simulated)
=============================================================================
