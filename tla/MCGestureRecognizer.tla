------------------------ MODULE MCGestureRecognizer ------------------------
(* GestureRecognizer, fed with every batch of at most one event.           *)
EXTENDS GestureRecognizer, TLC

Events(times, generation) ==
    [id : PointerIds, phase : Phases, x : Positions, ts : times,
     generation : {generation} \ {0}]

\* A batch that cannot be accepted resets the recognizer, whatever else it
\* says.  Of a second Down, and of another event without one, one for each
\* pointer is therefore enough; of the other invalid events, one at all.
Known(generation) ==
    IF generation = seenSurface
    THEN {tracks[i].id : i \in {j \in TrackSlots : tracks[j] # None}} ELSE {}

Misplaced(e, known) == (e.phase = "Down") = (e.id \in known)

Refused(ts, generation) ==
    LET e == [id |-> CHOOSE p \in PointerIds : TRUE, phase |-> "Down", x |-> NonFinite,
              ts |-> ts, generation |-> generation] IN
    {e, [e EXCEPT !.x = Min(Positions), !.ts = ts + 1]}

Batches(ts, generation) ==
    IF ts < lastFrame THEN {<<>>}
    ELSE LET known == Known(generation) IN
         {<<>>} \cup {<<e>> : e \in Refused(ts, generation) \cup
             {c \in Events(lastEvent..ts, generation) :
                 Misplaced(c, known) => c.ts = ts /\ c.x = Min(Positions)}}

\* Bound: a third pointer is down at time 0 only.
Hurried(events, ts) ==
    LET down == Cardinality({i \in TrackSlots : tracks[i] # None}) IN
    ts # 0 => down <= 2 /\ (down = 2 => \A i \in DOMAIN events : events[i].phase # "Down")

Next ==
    \E ts \in 0..MaxTime, generation \in 0..MaxSurface :
    \E events \in Batches(ts, generation) :
        Hurried(events, ts) /\ Update(events, ts, generation)

Spec == GestureInit /\ [][Next]_gestureVars

\* Pointer identities are compared only for equality.
GestureSymmetry == Permutations(PointerIds)
=============================================================================
