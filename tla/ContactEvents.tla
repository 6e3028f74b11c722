---------------------------- MODULE ContactEvents ----------------------------
(***************************************************************************)
(* How a step tells what became of the contacts: both worlds, that on the  *)
(* line (engine/physics/src/one_d.cpp) and that in the plane (two_d.cpp),  *)
(* merge the contacts of the previous step with those of the current one,  *)
(* both in the order of their slots; and what a game that handles the      *)
(* events knows then.                                                      *)
(***************************************************************************)
EXTENDS Naturals, Sequences, SequencesExt

SlotLess(p, q) ==
    \/ p.first.slot < q.first.slot
    \/ p.first.slot = q.first.slot /\ p.second.slot < q.second.slot

Event(phase, p) == [phase |-> phase, contact |-> p]

\* Seeded faults: slots are compared, not handles; what goes on is begun
\* again.
BrokenMet(old, new) == <<Event("Stay", new)>>
BrokenMetAgain(old, new) == <<Event("Begin", new)>>

\* What is reported of two contacts in the same two slots.
Met(old, new) ==
    IF old = new THEN <<Event("Stay", new)>> ELSE <<Event("End", old), Event("Begin", new)>>

Ended(old) == <<Event("End", old)>>
Begun(new) == <<Event("Begin", new)>>

\* One turn of the merge, which is at `old' and `new' in the two lists: it
\* takes the contact in the lower slots, or both where the slots agree.
MergeTurn(m, previous, current) ==
    LET oldLeft  == m.old <= Len(previous)
        newLeft  == m.new <= Len(current)
        takesOld == oldLeft /\ (newLeft => ~SlotLess(current[m.new], previous[m.old]))
        takesNew == newLeft /\ (oldLeft => ~SlotLess(previous[m.old], current[m.new])) IN
    CASE takesOld /\ takesNew ->
           [old |-> m.old + 1, new |-> m.new + 1,
            events |-> m.events \o Met(previous[m.old], current[m.new])]
      [] takesOld /\ ~takesNew ->
           [m EXCEPT !.old = @ + 1, !.events = @ \o Ended(previous[m.old])]
      [] ~takesOld /\ takesNew ->
           [m EXCEPT !.new = @ + 1, !.events = @ \o Begun(current[m.new])]
      [] OTHER -> m

\* The merge of the previous contacts with the current ones.
Transitions(previous, current) ==
    LET turns == Len(previous) + Len(current)
        merge[n \in 0..turns] ==
          IF n = 0 THEN [old |-> 1, new |-> 1, events |-> <<>>]
          ELSE MergeTurn(merge[n - 1], previous, current)
    IN merge[turns].events
-----------------------------------------------------------------------------
(* The game handles the events of a step; `list' is that of the entries.   *)

EntityOf(body, list) == (CHOOSE entry \in ToSet(list) : entry.body = body).entity

\* It asks entity_for_body who has met.
Learnt(known, e, list) ==
    CASE e.phase = "Begin" ->
           known \cup {[contact |-> e.contact,
                       between |-> {EntityOf(e.contact.first, list),
                                    EntityOf(e.contact.second, list)}]}
      [] e.phase = "Stay" -> known
      [] e.phase = "End"  -> {k \in known : k.contact # e.contact}

\* What it knows after all of them, where it knew `before'.
Told(before, events, list) ==
    LET known[n \in 0..Len(events)] ==
          IF n = 0 THEN before ELSE Learnt(known[n - 1], events[n], list)
    IN known[Len(events)]

\* To one who knows the contacts `known' the events of a step make sense one
\* by one: what begins is new to him, what goes on or ends he knew, each
\* contact he knew is spoken of and none twice; and they come in the order of
\* their slots, the end of a contact before the beginning of its successor in
\* the same slots.
MakeSense(events, known) ==
    /\ \A i \in DOMAIN events : events[i].phase = "Begin" <=> events[i].contact \notin known
    /\ known \subseteq {events[i].contact : i \in DOMAIN events}
    /\ \A i, j \in DOMAIN events : i < j =>
          \/ SlotLess(events[i].contact, events[j].contact)
          \/ /\ ~SlotLess(events[j].contact, events[i].contact)
             /\ events[i].phase = "End" /\ events[j].phase = "Begin"
=============================================================================
