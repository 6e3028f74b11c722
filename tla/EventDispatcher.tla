--------------------------- MODULE EventDispatcher ---------------------------
(***************************************************************************)
(* Synchronous event dispatch with handlers that may do anything to the    *)
(* dispatcher that is running them: EventDispatcher                        *)
(* (engine/core/include/storm/core/event_dispatcher.hpp).                  *)
(*                                                                         *)
(* Everything runs on one thread.  Application code runs outside of every  *)
(* dispatch, or as the handler of the innermost one, and there makes any   *)
(* sequence of calls; the loop of dispatch() between two handlers is one   *)
(* step.  An exception leaves a handler as a failed result does.           *)
(*                                                                         *)
(* A slot is named by its identifier.  `Handles' are the Subscription      *)
(* objects of the application; a callback may own one more, moved into it  *)
(* when it was subscribed, and takes it along when its slot is destroyed,  *)
(* that is, when no list and no running dispatch refers to the slot.       *)
(* Destroying the dispatcher ends a behaviour.                             *)
(***************************************************************************)
EXTENDS Naturals, Sequences, SequencesExt, FiniteSets

CONSTANTS Events,               \* exact C++ types
          Handles,
          MaxId,                \* std::numeric_limits<std::uint64_t>::max()
          MaxDepth,             \* bound: dispatches nested in handlers
          None

ASSUME DispatcherAssumption ==
    MaxId \in Nat \ {0} /\ MaxDepth \in Nat \ {0} /\ IsFiniteSet(Handles)

Ids == 1..MaxId

Connections == [event : Events, id : Ids]

ASSUME NoConnectionAssumption == None \notin Connections \cup Handles

VARIABLES listeners,            \* State::listeners, an empty list where there is no entry
          active,               \* slots whose flag is set
          nextId,               \* State::next_id, 0 when exhausted
          handles,              \* per Subscription: its connection, or None
          owned,                \* per slot: the connection its callback owns, or None
          stack,                \* the running dispatches, innermost last
          reentered,            \* a container was entered while it was being changed
          cleared               \* history: slots that clear() disconnected

dispatcherVars == <<listeners, active, nextId, handles, owned, stack, reentered, cleared>>

\* A running dispatch: its snapshot and the position of the handler that runs;
\* `owed' and `ran' are history: who was connected at entry and who was called.
Frames == [event : Events, snapshot : Seq(Ids), at : Nat \ {0}, owed : SUBSET Ids, ran : Seq(Ids)]

DispatcherInit ==
    /\ listeners = [e \in Events |-> <<>>]
    /\ active = {}
    /\ nextId = 1
    /\ handles = [h \in Handles |-> None]
    /\ owned = [id \in Ids |-> None]
    /\ stack = <<>>
    /\ reentered = FALSE
    /\ cleared = {}
-----------------------------------------------------------------------------
(* State::disconnect.                                                      *)

Listed(lists) == UNION {ToSet(lists[e]) : e \in Events}

\* The slots a running dispatch keeps.
Pinned(frames) == UNION {ToSet(frames[i].snapshot) : i \in DOMAIN frames}

\* The connections whose calls of disconnect one call leads to, each made
\* while the one before it erases a slot, by the destructor of what that
\* slot's callback owned.  It owned an earlier subscription, so that the calls
\* come to an end.
Calls(lists, owns, frames, connection) ==
    LET destroyed == Listed(lists) \ Pinned(frames)
        calls[n \in 0..MaxId] ==
          IF n = 0 THEN {connection} \ {None}
          ELSE LET before == calls[n - 1] IN
               before \cup ({owns[c.id] : c \in {d \in before : d.id \in destroyed}} \ {None})
    IN calls[MaxId]

\* A list is entered again while it is erased from: its elements are moved
\* from or half destroyed, and what happens then is undefined.
Reenters(calls) == \E c, d \in calls : c # d /\ c.event = d.event

\* erase_if: what is left of a list without these slots.
Erased(list, slots) ==
    LET kept[n \in 0..Len(list)] ==
          IF n = 0 THEN <<>>
          ELSE IF list[n] \in slots THEN kept[n - 1] ELSE Append(kept[n - 1], list[n])
    IN kept[Len(list)]

\* Seeded fault: the slot leaves the list with its flag set.
BrokenDeactivated(connections) == {}

Deactivated(connections) == {c.id : c \in connections}

\* These connections end, on these lists and callbacks.  After an undefined
\* call the values mean nothing.
Ends(lists, flags, owns, frames, connections) ==
    LET calls == {Calls(lists, owns, frames, c) : c \in connections}
        ended == UNION calls
        left  == [e \in Events |-> Erased(lists[e], {c.id : c \in {d \in ended : d.event = e}})]
        kept  == Listed(left) \cup Pinned(frames) IN
    /\ listeners' = left
    /\ active' = flags \ Deactivated(ended)
    /\ owned' = [id \in Ids |-> IF id \in kept THEN owns[id] ELSE None]
    /\ reentered' = \E c \in calls : Reenters(c)

Disconnect(h) ==
    /\ Ends(listeners, active, owned, stack, {handles[h]})
    /\ handles' = [handles EXCEPT ![h] = None]
    /\ UNCHANGED <<nextId, stack, cleared>>

\* Seeded fault: the connection that `to' had is forgotten, not ended.
BrokenMoveAssign(from, to) ==
    /\ from # to
    /\ handles' = [handles EXCEPT ![to] = handles[from], ![from] = None]
    /\ UNCHANGED <<listeners, active, nextId, owned, stack, reentered, cleared>>

\* Move assignment ends the connection of the target first.
MoveAssign(from, to) ==
    /\ from # to
    /\ Ends(listeners, active, owned, stack, {handles[to]})
    /\ handles' = [handles EXCEPT ![to] = handles[from], ![from] = None]
    /\ UNCHANGED <<nextId, stack, cleared>>

NextAfter(id) == IF id = MaxId THEN 0 ELSE id + 1

\* subscribe() with a callback that takes over the connection of `given', a
\* handle or None; the result is moved into h.  Where subscribe() refuses,
\* the connection ends with the callback, as by Disconnect(given).
Subscribe(h, e, given) ==
    LET left == [g \in Handles |-> IF g = given THEN None ELSE handles[g]] IN
    /\ nextId # 0
    /\ given \in Handles => handles[given] # None
    /\ Ends([listeners EXCEPT ![e] = Append(@, nextId)], active \cup {nextId},
            [owned EXCEPT ![nextId] = IF given \in Handles THEN handles[given] ELSE None],
            stack, {left[h]})
    /\ nextId' = NextAfter(nextId)
    /\ handles' = [left EXCEPT ![h] = [event |-> e, id |-> nextId]]
    /\ UNCHANGED <<stack, cleared>>

\* The map is cleared with the slots in it; a callback among them that owns
\* a subscription looks into the map while it is being destroyed.
Clear ==
    /\ active' = active \ Listed(listeners)
    /\ listeners' = [e \in Events |-> <<>>]
    /\ owned' = [id \in Ids |-> IF id \in Pinned(stack) THEN owned[id] ELSE None]
    /\ reentered' = \E id \in Listed(listeners) \ Pinned(stack) : owned[id] # None
    /\ cleared' = cleared \cup Listed(listeners)
    /\ UNCHANGED <<nextId, handles, stack>>
-----------------------------------------------------------------------------
(* dispatch().                                                             *)

Connected == (Range(handles) \cup Range(owned)) \ {None}

\* What Subscription objects hold, the application's and those in callbacks.
Held == {c.id : c \in Connected}

\* Those for which connected() says so: the listeners of e.
ConnectedTo(e) == {c.id : c \in {d \in Connected : d.event = e}} \ cleared

\* Positions after the current one whose slot is active.
Uncalled(frame) == {i \in (frame.at + 1)..Len(frame.snapshot) : frame.snapshot[i] \in active}

\* Seeded fault: the loop runs over the list itself, not over a copy.
BrokenSnapshot(frame) == [frame EXCEPT !.snapshot = listeners[frame.event]]

Snapshot(frame) == frame

\* The loop calls the next active handler, or the dispatch is complete.
Advanced(frames) ==
    LET frame == Snapshot(Last(frames)) IN
    IF Uncalled(frame) = {} THEN Front(frames)
    ELSE LET next == Min(Uncalled(frame)) IN
         Append(Front(frames), [frame EXCEPT !.at = next, !.ran = Append(@, frame.snapshot[next])])

\* The snapshots of dispatches that ended let go of their slots.
Released == Pinned(stack) \ (Pinned(stack') \cup Listed(listeners))

Release == Ends(listeners, active, owned, stack', {owned[id] : id \in Released})

Dispatch(e) ==
    /\ Len(stack) < MaxDepth
    /\ listeners[e] # <<>>
    /\ stack' = Advanced(Append(stack, [event |-> e, snapshot |-> listeners[e], at |-> 0,
                                        owed |-> ConnectedTo(e), ran |-> <<>>]))
    /\ UNCHANGED <<listeners, active, nextId, handles, owned, reentered, cleared>>

HandlerReturns ==
    /\ stack # <<>>
    /\ stack' = Advanced(stack) /\ Release
    /\ UNCHANGED <<nextId, handles, cleared>>

\* A failed handler stops its dispatch; the caller, a handler of the outer
\* dispatch perhaps, goes on as it likes.
HandlerFails ==
    /\ stack # <<>>
    /\ stack' = Front(stack) /\ Release
    /\ UNCHANGED <<nextId, handles, cleared>>

\* Nothing is known of the program after an undefined call.
DispatcherNext ==
    /\ ~reentered
    /\ \/ \E h \in Handles : Disconnect(h)
       \/ \E from, to \in Handles : MoveAssign(from, to)
       \/ \E h \in Handles, e \in Events, given \in Handles \cup {None} : Subscribe(h, e, given)
       \/ Clear
       \/ \E e \in Events : Dispatch(e)
       \/ HandlerReturns \/ HandlerFails

DispatcherSpec == DispatcherInit /\ [][DispatcherNext]_dispatcherVars
-----------------------------------------------------------------------------
(* Properties.                                                             *)

\* Variables and running dispatches are well formed; a dispatch on the stack
\* is at a handler it has just called.
DispatcherTypeOK ==
    /\ listeners \in [Events -> Seq(Ids)]
    /\ active \subseteq Ids
    /\ nextId \in 0..MaxId
    /\ handles \in [Handles -> Connections \cup {None}]
    /\ owned \in [Ids -> Connections \cup {None}]
    /\ reentered \in BOOLEAN
    /\ stack \in Seq(Frames) /\ Len(stack) <= MaxDepth
    /\ \A i \in DOMAIN stack : stack[i].at \in DOMAIN stack[i].snapshot
                               /\ Last(stack[i].ran) = stack[i].snapshot[stack[i].at]

\* Listeners and handles account for each other: a list holds, in the order
\* of subscription and once, exactly what the application or a callback can
\* still disconnect, and their slots alone are active; a handle that was
\* moved from, assigned to or destroyed, also with the callback that owned
\* it, leaves no listener behind (subscribe, disconnect, clear, operator=).
ListenersAreHeld ==
    /\ \A e \in Events :
          /\ ToSet(listeners[e]) = ConnectedTo(e)
          /\ \A i, j \in DOMAIN listeners[e] : i < j => listeners[e][i] < listeners[e][j]
    /\ active = Held \ cleared
    /\ Cardinality(Connected) = Cardinality({h \in Handles : handles[h] # None})
                                + Cardinality({id \in Ids : owned[id] # None})

\* Types, lists and handles together, between any two calls, in handlers and
\* outside (subscribe, disconnect, clear, operator=, dispatch).
DispatcherInvariant == DispatcherTypeOK /\ (~reentered => ListenersAreHeld)

\* A dispatch calls those connected when it began, in the order of their
\* subscription, each once, and leaves out only those disconnected before
\* their turn; later subscribers wait for the next one (dispatch).
DispatchIsFair ==
    \A i \in DOMAIN stack :
        LET frame == stack[i] IN
        /\ ToSet(frame.ran) \subseteq frame.owed
        /\ \A a, b \in DOMAIN frame.ran : a < b => frame.ran[a] < frame.ran[b]
        /\ \A id \in frame.owed :
              id < Last(frame.ran) => id \in ToSet(frame.ran) \/ id \notin Held \ cleared

\* A handler is called only while its subscription is connected: one that
\* was disconnected, replaced or cleared, or whose owner was destroyed, is
\* skipped at once, however deep the dispatch that was going to call it; and
\* a dispatch that completes has skipped no other (dispatch).
SkipsTheDisconnected ==
    [][/\ \A i \in DOMAIN stack' :
             (i \notin DOMAIN stack \/ stack'[i].ran # stack[i].ran)
                => Last(stack'[i].ran) \in Held \ cleared
       /\ HandlerReturns /\ Len(stack') < Len(stack) =>
             \A id \in Last(stack).owed :
                 id \in ToSet(Last(stack).ran) \/ id \notin Held \ cleared]_dispatcherVars

\* What docs/ARCHITECTURE.md says of the subscriptions, that they disconnect
\* safely: none does so inside the erasure or the clearing of the containers
\* it then reads (disconnect, clear).
DisconnectsSafely == ~reentered
=============================================================================
