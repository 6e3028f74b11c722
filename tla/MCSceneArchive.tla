---------------------------- MODULE MCSceneArchive ----------------------------
(* SceneArchive with a bounded life of each process: as long as there is   *)
(* no file, scenes of up to MaxSlots slots are edited at will, and those of *)
(* one slot more without freeing a slot or adding a component; a process   *)
(* that finds a file loads it once.                                        *)
EXTENDS SceneArchive, TLC

CONSTANTS Narrow, Wide, MaxSlots

MCTypeId == Narrow :> 2 @@ Wide :> 1
MCWidth  == Narrow :> 1 @@ Wide :> 2

MCDefaultLimits == [bytes |-> 51, entities |-> 4, types |-> 2, records |-> 8, payload |-> 2]

\* Every limit is tightened in one of these.
MCLimits ==
    {MCDefaultLimits,
     [MCDefaultLimits EXCEPT !.bytes = 15],
     [MCDefaultLimits EXCEPT !.entities = 2, !.payload = 1],
     [MCDefaultLimits EXCEPT !.types = 1, !.records = 2]}

Small(c) ==
    \/ Len(c.slots) <= MaxSlots
    \/ /\ Len(c.slots) = MaxSlots + 1 /\ c.components = {}
       /\ \A i \in DOMAIN c.slots : c.slots[i].alive /\ c.slots[i].generation = 1

Bounded ==
    IF file = None THEN \A o \in Objects : Small(scenes[o])
    ELSE nextSceneId = 1 /\ \A o \in Objects : Idle(o)
=============================================================================
