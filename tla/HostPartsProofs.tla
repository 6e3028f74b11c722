--------------------------- MODULE HostPartsProofs ---------------------------
(***************************************************************************)
(* The three parts that a packaged shell is made of, for every value of    *)
(* their constants.                                                        *)
(*                                                                         *)
(* Lifecycle and surface: what a step of them may do, for the proofs about *)
(* everything that is driven by them; and that a report of lost focus      *)
(* stops the game loop.                                                    *)
(*                                                                         *)
(* Touch input: cleaning up after a rejected batch never fails, the frames *)
(* explain the pointers, and an end is reported.                           *)
(***************************************************************************)
EXTENDS TouchInput, Lifecycle, SurfaceLifecycle, CommonLemmas
-----------------------------------------------------------------------------
(* Lifecycle and surface.                                                  *)


\* One request keeps the machine well typed and moves it only together with
\* its revision (LifecycleStateMachine::transition_to).
LEMMA TransitionMoves ==
    ASSUME NEW l \in LifecycleType, NEW next \in LifecycleStates
    PROVE  LET m == Transition(l, next).lifecycle IN
           /\ Transition(l, next).ok \in BOOLEAN
           /\ m \in LifecycleType
           /\ m.revision >= l.revision
           /\ m.revision = l.revision => m = l
  BY MaxRevisionAssumption DEF Transition, LifecycleType

\* The outcome r of the requests a handler has made so far, begun from l.
Reached(r, l) ==
    /\ r.ok \in BOOLEAN
    /\ r.lifecycle \in LifecycleType
    /\ r.lifecycle.revision >= l.revision
    /\ r.lifecycle.revision = l.revision => r.lifecycle = l

\* A conditional request of a handler keeps that.
LEMMA RequestMoves ==
    ASSUME NEW l \in LifecycleType, NEW r, Reached(r, l),
           NEW from, NEW next \in LifecycleStates
    PROVE  Reached(Request(r, from, next), l)
  <1>1. CASE r.ok /\ r.lifecycle.state \in from
    <2>1. r.lifecycle \in LifecycleType
      BY DEF Reached
    <2>2. Reached(Transition(r.lifecycle, next), r.lifecycle)
      BY <2>1, TransitionMoves DEF Reached
    <2>3. /\ l.revision \in Int
          /\ r.lifecycle.revision \in Int
          /\ Transition(r.lifecycle, next).lifecycle.revision \in Int
      BY <2>1, <2>2, MaxRevisionAssumption DEF Reached, LifecycleType
    <2>4. Reached(Transition(r.lifecycle, next), l)
      BY <2>2, <2>3 DEF Reached
    <2> QED
      BY <1>1, <2>4 DEF Request
  <1>2. CASE ~(r.ok /\ r.lifecycle.state \in from)
    BY <1>2 DEF Request
  <1> QED
    BY <1>1, <1>2

\* So does every native callback (apply_activity_event, apply_scene_event).
LEMMA EventMoves ==
    ASSUME NEW l \in LifecycleType
    PROVE  /\ \A event \in ActivityEvents : Reached(ApplyActivityEvent(l, event), l)
           /\ \A event \in SceneEvents : Reached(ApplySceneEvent(l, event), l)
  <1> DEFINE untouched == [ok |-> TRUE, lifecycle |-> l]
  <1>1. \A b \in BOOLEAN : Reached([untouched EXCEPT !.ok = b], l)
    BY MaxRevisionAssumption DEF Reached, LifecycleType
  <1>2. Reached(untouched, l)
    BY MaxRevisionAssumption DEF Reached, LifecycleType
  <1>3. Reached(ToForeground(untouched), l) /\ Reached(ToInactive(untouched), l)
    BY <1>2, RequestMoves DEF ToForeground, ToInactive, LifecycleStates
  <1>4. Reached(ToActive(untouched), l) /\ Reached(ToBackground(untouched), l)
    BY <1>3, RequestMoves DEF ToActive, ToBackground, LifecycleStates
  <1>5. Reached(Transition(l, "Terminating"), l)
    BY TransitionMoves DEF Reached, LifecycleStates
  <1>6. ASSUME NEW event \in ActivityEvents
        PROVE  Reached(ApplyActivityEvent(l, event), l)
    <2> HIDE DEF untouched
    <2>1. Reached([untouched EXCEPT !.ok = event = "Destroyed"], l)
      BY <1>1
    <2> QED
      BY <1>3, <1>4, <1>5, <2>1 DEF ApplyActivityEvent, ActivityEvents, untouched
  <1>7. ASSUME NEW event \in SceneEvents
        PROVE  Reached(ApplySceneEvent(l, event), l)
    BY <1>1, <1>3, <1>4 DEF ApplySceneEvent, SceneEvents
  <1> QED
    BY <1>6, <1>7

\* No native callback and no direct request changes the lifecycle without
\* raising its revision, and the revision never falls.
LEMMA LifecycleMoves ==
    ASSUME LifecycleTypeOK, LifecycleNext
    PROVE  /\ LifecycleTypeOK'
           /\ lifecycle'.revision >= lifecycle.revision
           /\ lifecycle'.revision = lifecycle.revision => lifecycle' = lifecycle
  <1>1. lifecycle \in LifecycleType
    BY DEF LifecycleTypeOK
  <1>2. \A next \in LifecycleStates : Reached(Transition(lifecycle, next), lifecycle)
    BY <1>1, TransitionMoves DEF Reached
  <1>3. PICK r : Reached(r, lifecycle) /\ lifecycle' = r.lifecycle
    <2>1. Reached(Transition(lifecycle, "Terminating"), lifecycle)
      BY <1>2 DEF LifecycleStates
    <2> QED
      BY <1>1, <1>2, <2>1, EventMoves
      DEF LifecycleNext, TransitionTo, ActivityEvent, SceneEvent, WillTerminate
  <1> QED
    BY <1>3 DEF Reached, LifecycleTypeOK

\* A surface seen attached with an unchanged generation counter was attached
\* before the step too: a generation is never given out twice.
LEMMA SurfaceMoves ==
    ASSUME SurfaceTypeOK, SurfaceNext
    PROVE  /\ SurfaceTypeOK'
           /\ lastGeneration' >= lastGeneration
           /\ Attached' /\ lastGeneration' = lastGeneration => Attached
  BY MaxGenerationAssumption, NoSurfaceAssumption
  DEF SurfaceTypeOK, SurfaceNext, Attach, Resize, Detach, IsCurrent, Attached, Descriptors
-----------------------------------------------------------------------------
(* What the handlers of the native callbacks ask for.                      *)

\* Everything a handler asked for so far was granted, unless the revision
\* counter is exhausted; and the machine has not terminated.
Granted(r) ==
    /\ r.lifecycle \in LifecycleType /\ r.ok \in BOOLEAN
    /\ r.lifecycle.state # "Terminating"
    /\ r.ok \/ r.lifecycle.revision = MaxRevision

\* A conditional request that is granted, or was not needed.
LEMMA RequestGranted ==
    ASSUME NEW r, Granted(r), NEW next \in LifecycleStates \ {"Terminating"},
           NEW from \in SUBSET LifecycleStates, \A s \in from : next \in Allowed[s]
    PROVE  Granted(Request(r, from, next))
  <1> DEFINE l == r.lifecycle
  <1>1. l \in LifecycleType /\ l.state \in LifecycleStates /\ l.revision \in 0..MaxRevision
    BY DEF Granted, LifecycleType
  <1>2. CASE ~(r.ok /\ l.state \in from) \/ next = l.state
    <2>1. CASE ~(r.ok /\ l.state \in from)
      BY <2>1 DEF Request
    <2>2. CASE r.ok /\ l.state \in from /\ next = l.state
      <3>1. Request(r, from, next) = [ok |-> TRUE, lifecycle |-> l]
        BY <2>2 DEF Request, Transition
      <3> QED
        BY <3>1 DEF Granted
    <2> QED
      BY <1>2, <2>1, <2>2
  <1>3. CASE r.ok /\ l.state \in from /\ next # l.state /\ l.revision < MaxRevision
    <2> DEFINE m == [state |-> next, revision |-> l.revision + 1]
    <2>1. Request(r, from, next) = [ok |-> TRUE, lifecycle |-> m]
      BY <1>3 DEF Request, Transition
    <2>2. m \in LifecycleType /\ m.state # "Terminating"
      BY <1>1, <1>3, MaxRevisionAssumption DEF LifecycleType
    <2> QED
      BY <2>1, <2>2 DEF Granted
  <1>4. CASE r.ok /\ l.state \in from /\ next # l.state /\ l.revision = MaxRevision
    <2>1. Request(r, from, next) = [ok |-> FALSE, lifecycle |-> l]
      BY <1>4, MaxRevisionAssumption DEF Request, Transition
    <2> QED
      BY <1>4, <2>1 DEF Granted
  <1>5. l.revision < MaxRevision \/ l.revision = MaxRevision
    BY <1>1, MaxRevisionAssumption
  <1> QED
    BY <1>2, <1>3, <1>4, <1>5

\* The handlers ask only for transitions the machine allows: what refuses an
\* event before the machine has terminated is an exhausted revision counter,
\* and only Destroyed terminates it (apply_activity_event,
\* is_transition_allowed).
LEMMA EventsAreGranted ==
    ASSUME NEW l \in LifecycleType, l.state # "Terminating",
           NEW event \in ActivityEvents \ {"Destroyed"}
    PROVE  Granted(ApplyActivityEvent(l, event))
  <1> DEFINE untouched == [ok |-> TRUE, lifecycle |-> l]
  <1>1. Granted(untouched)
    BY DEF Granted
  <1>2. Granted(ToForeground(untouched)) /\ Granted(ToInactive(untouched))
    BY <1>1, RequestGranted DEF ToForeground, ToInactive, Allowed, LifecycleStates
  <1>3. Granted(ToActive(untouched)) /\ Granted(ToBackground(untouched))
    BY <1>2, RequestGranted DEF ToActive, ToBackground, Allowed, LifecycleStates
  <1> QED
    BY <1>2, <1>3 DEF ApplyActivityEvent, ActivityEvents

\* So do the handlers of a UIKit scene (apply_scene_event).
LEMMA SceneEventsAreGranted ==
    ASSUME NEW l \in LifecycleType, l.state # "Terminating", NEW event \in SceneEvents
    PROVE  Granted(ApplySceneEvent(l, event))
  <1> DEFINE untouched == [ok |-> TRUE, lifecycle |-> l]
  <1>1. Granted(untouched)
    BY DEF Granted
  <1>2. Granted(ToForeground(untouched)) /\ Granted(ToInactive(untouched))
    BY <1>1, RequestGranted DEF ToForeground, ToInactive, Allowed, LifecycleStates
  <1>3. Granted(ToActive(untouched)) /\ Granted(ToBackground(untouched))
    BY <1>2, RequestGranted DEF ToActive, ToBackground, Allowed, LifecycleStates
  <1> QED
    BY <1>2, <1>3 DEF ApplySceneEvent, SceneEvents

\* A machine that does not run the game loop is not made to by a request of
\* another state.
LEMMA RequestStaysInactive ==
    ASSUME NEW r, r.lifecycle.state # "ForegroundActive",
           NEW from, NEW next, next # "ForegroundActive"
    PROVE  Request(r, from, next).lifecycle.state # "ForegroundActive"
  BY DEF Request, Transition

\* A report of lost focus leaves no loop running.
LEMMA LossStops ==
    ASSUME LifecycleTypeOK
    PROVE  LossStopsTheLoop
  <1> SUFFICES ASSUME lifecycle.revision < MaxRevision
               PROVE  /\ \A e \in {"Paused", "FocusLost", "Stopped", "Destroyed"} :
                            ApplyActivityEvent(lifecycle, e).lifecycle.state # "ForegroundActive"
                      /\ \A e \in {"WillResignActive", "DidEnterBackground"} :
                            ApplySceneEvent(lifecycle, e).lifecycle.state # "ForegroundActive"
    BY DEF LossStopsTheLoop
  <1> DEFINE untouched == [ok |-> TRUE, lifecycle |-> lifecycle]
  <1>1. lifecycle \in LifecycleType
    BY DEF LifecycleTypeOK
  <1>2. ToInactive(untouched).lifecycle.state # "ForegroundActive"
    BY <1>1 DEF ToInactive, Request, Transition, Allowed
  <1>3. ToBackground(untouched).lifecycle.state # "ForegroundActive"
    BY <1>2, RequestStaysInactive DEF ToBackground
  <1>4. lifecycle.state # "Terminating" =>
           Transition(lifecycle, "Terminating").lifecycle.state # "ForegroundActive"
    BY <1>1 DEF Transition, Allowed, LifecycleType, LifecycleStates
  <1>5. CASE lifecycle.state = "Terminating"
    BY <1>5 DEF ApplyActivityEvent, ApplySceneEvent
  <1>6. CASE lifecycle.state # "Terminating"
    BY <1>2, <1>3, <1>4, <1>6 DEF ApplyActivityEvent, ApplySceneEvent
  <1> QED
    BY <1>5, <1>6

\* A machine that only callbacks and requests drive is always well typed, and
\* a report of lost focus always stops the game loop.
THEOREM LossAlwaysStopsTheLoop == LifecycleSpec => [](LifecycleTypeOK /\ LossStopsTheLoop)
  <1>1. LifecycleInit => LifecycleTypeOK
    BY MaxRevisionAssumption DEF LifecycleInit, LifecycleTypeOK, LifecycleType, LifecycleStates
  <1>2. LifecycleTypeOK /\ [LifecycleNext]_lifecycle => LifecycleTypeOK'
    BY LifecycleMoves DEF LifecycleTypeOK
  <1>3. LifecycleTypeOK => LossStopsTheLoop
    BY LossStops
  <1> QED
    BY <1>1, <1>2, <1>3, PTL DEF LifecycleSpec
-----------------------------------------------------------------------------
(* Touch input.                                                            *)


PointerType == [id : PointerIds, x : Positions, delta : Int, ts : 0..MaxTime]

\* No identity is active twice.
OnePerPointer == \A i, j \in Slots : activePointers[i].id = activePointers[j].id => i = j

\* No event that was accepted has coordinates that are not finite.
FrameIsFinite == \A i \in 1..Len(frameEvents) : frameEvents[i].x \in Positions

\* A surface is attached only under the newest generation.
SurfaceIsNewest == touchSurface # 0 => touchSurface = lastTouchSurface

TouchInv ==
    /\ TouchInvariant /\ CleanupSucceeds
    /\ OnePerPointer /\ FrameIsFinite /\ SurfaceIsNewest
    /\ FrameExplainsPointers
-----------------------------------------------------------------------------
\* The typing facts the steps need, in the vocabulary of this module.
LEMMA TouchTypes ==
    ASSUME TouchTypeOK
    PROVE  /\ activePointers \in Seq(PointerType) /\ Len(activePointers) \in 0..MaxPointers
           /\ frameEvents \in Seq(PointerEvents) /\ Len(frameEvents) \in 0..MaxEvents
           /\ touchSurface \in 0..MaxSurface /\ lastTouchSurface \in 0..MaxSurface
           /\ lastEventTime \in 0..MaxTime
           /\ batch \in {"closed", "open", "internalError"}
           /\ consumer \in [PointerIds -> Positions \cup {Unknown}]
           /\ activePointers # <<>> => touchSurface # 0
  <1>1. activePointers \in Seq(PointerType) /\ frameEvents \in Seq(PointerEvents)
    BY DEF TouchTypeOK, PointerType
  <1>2. Len(activePointers) \in Nat /\ Len(frameEvents) \in Nat
    BY <1>1, LenProperties
  <1>3. Len(activePointers) <= MaxPointers /\ Len(frameEvents) <= MaxEvents
    BY DEF TouchTypeOK
  <1>4. Len(activePointers) \in 0..MaxPointers /\ Len(frameEvents) \in 0..MaxEvents
    BY <1>2, <1>3, CapacityAssumption
  <1> QED
    BY <1>1, <1>4 DEF TouchTypeOK
-----------------------------------------------------------------------------
(* Positions in sequences.                                                 *)

\* The last position of a set of positions is one of them.
LEMMA LastExists ==
    ASSUME NEW n \in Nat, NEW S \in SUBSET (1..n), S # {}
    PROVE  LastOf(S) \in S /\ \A j \in S : j <= LastOf(S)
  <1> DEFINE Distances == {n - i : i \in S}
  <1>1. Distances \in SUBSET Nat /\ Distances # {}
    <2>1. \A i \in S : n - i \in Nat
      OBVIOUS
    <2> QED
      BY <2>1
  <1>2. PICK m \in Distances : \A d \in Distances : m <= d
    <2> HIDE DEF Distances
    <2> QED
      BY <1>1, Least
  <1>3. PICK i \in S : m = n - i
    BY <1>2
  <1>4. \A j \in S : j <= i
    <2> SUFFICES ASSUME NEW j \in S PROVE j <= i
      OBVIOUS
    <2>1. n - j \in Distances
      OBVIOUS
    <2>2. n - i <= n - j
      BY <2>1, <1>2, <1>3
    <2> QED
      BY <2>2
  <1> QED
    BY <1>4 DEF LastOf

\* It is the one that no other follows.
LEMMA LastIs ==
    ASSUME NEW S \in SUBSET Int, NEW i \in S, \A j \in S : j <= i
    PROVE  LastOf(S) = i
  <1>1. \A k \in S : (\A j \in S : j <= k) <=> k = i
    OBVIOUS
  <1> QED
    BY <1>1 DEF LastOf

-----------------------------------------------------------------------------
\* The initial state.
LEMMA TouchInitInv == TouchInit => TouchInv
  <1> SUFFICES ASSUME TouchInit PROVE TouchInv
    OBVIOUS
  <1> USE DEF TouchInit
  <1>1. TouchTypeOK
    BY BoundAssumption, CapacityAssumption DEF TouchTypeOK
  <1> QED
    BY <1>1 DEF TouchInv, TouchInvariant, CleanupSucceeds, OnePerPointer, FrameIsFinite,
                SurfaceIsNewest, FrameExplainsPointers, FrameIsOrdered, Slots
-----------------------------------------------------------------------------
(* What a frame F says of a pointer to a game that knew C before.          *)

MentionsIn(F, id) == {i \in 1..Len(F) : F[i].id = id}
DownsIn(F, id)    == {j \in MentionsIn(F, id) : F[j].phase = "Down"}

ReplayedIn(F, C, id) ==
    IF MentionsIn(F, id) = {} THEN C[id]
    ELSE IF F[LastOf(MentionsIn(F, id))].phase \in Ending THEN Unknown
         ELSE F[LastOf(MentionsIn(F, id))].x

\* Where the pointer was when its delta was last zero.
BaseIn(F, C, id) == IF DownsIn(F, id) = {} THEN C[id] ELSE F[LastOf(DownsIn(F, id))].x

Explains(F, C, p) ==
    /\ ReplayedIn(F, C, p.id) = p.x
    /\ BaseIn(F, C, p.id) \in Positions /\ p.x = BaseIn(F, C, p.id) + p.delta

ExplainsAll(F, C, A) == \A i \in 1..Len(A) : Explains(F, C, A[i])

\* FrameExplainsPointers, as a relation of frame, game and pointers.
LEMMA Explained == FrameExplainsPointers <=> ExplainsAll(frameEvents, consumer, activePointers)
  BY DEF FrameExplainsPointers, Slots, Mentions, Replayed, MentionsIn, ReplayedIn, DownsIn, BaseIn,
         Explains, ExplainsAll

\* The same after a step.
LEMMA ExplainedNext ==
    FrameExplainsPointers' <=> ExplainsAll(frameEvents', consumer', activePointers')
  BY DEF FrameExplainsPointers, Slots, Mentions, Replayed, MentionsIn, ReplayedIn, DownsIn, BaseIn,
         Explains, ExplainsAll

\* An accepted event is the last word about its pointer, and changes nothing
\* of what the frame says of the others.
LEMMA AppendToFrame ==
    ASSUME NEW F \in Seq(PointerEvents), NEW C, NEW e \in PointerEvents
    PROVE  LET G == Append(F, e) IN
           /\ \A id : id # e.id => /\ ReplayedIn(G, C, id) = ReplayedIn(F, C, id)
                                   /\ BaseIn(G, C, id) = BaseIn(F, C, id)
           /\ ReplayedIn(G, C, e.id) = IF e.phase \in Ending THEN Unknown ELSE e.x
           /\ BaseIn(G, C, e.id) = IF e.phase = "Down" THEN e.x ELSE BaseIn(F, C, e.id)
  <1> DEFINE n == Len(F)
             G == Append(F, e)
  <1>1. /\ n \in Nat /\ Len(G) = n + 1 /\ G[n + 1] = e
        /\ \A j \in 1..n : G[j] = F[j]
    BY LenProperties, AppendProperties
  <1>2. \A id : MentionsIn(F, id) \in SUBSET (1..n) /\ DownsIn(F, id) \in SUBSET MentionsIn(F, id)
    BY DEF MentionsIn, DownsIn
  <1> HIDE DEF n, G
  <1>3. ASSUME NEW id, id # e.id
        PROVE  ReplayedIn(G, C, id) = ReplayedIn(F, C, id) /\ BaseIn(G, C, id) = BaseIn(F, C, id)
    <2>1. MentionsIn(G, id) = MentionsIn(F, id)
      BY <1>1, <1>3 DEF MentionsIn, n
    <2>2. DownsIn(G, id) = DownsIn(F, id)
      BY <1>1, <1>2, <2>1 DEF DownsIn
    <2>3. \A S : S # {} /\ S \in SUBSET MentionsIn(F, id) => G[LastOf(S)] = F[LastOf(S)]
      BY <1>1, <1>2, LastExists
    <2> QED
      BY <2>1, <2>2, <2>3, <1>2 DEF ReplayedIn, BaseIn
  <1>4. MentionsIn(G, e.id) = MentionsIn(F, e.id) \cup {n + 1}
    BY <1>1 DEF MentionsIn, n
  <1>5. LastOf(MentionsIn(G, e.id)) = n + 1
    <2>1. n + 1 \in Int /\ \A j \in MentionsIn(G, e.id) : j \in Int /\ j <= n + 1
      BY <1>1, <1>2, <1>4
    <2> QED
      BY <2>1, <1>4, LastIs
  <1>6. ReplayedIn(G, C, e.id) = IF e.phase \in Ending THEN Unknown ELSE e.x
    BY <1>1, <1>4, <1>5 DEF ReplayedIn
  <1>7. BaseIn(G, C, e.id) = IF e.phase = "Down" THEN e.x ELSE BaseIn(F, C, e.id)
    <2>1. CASE e.phase = "Down"
      <3>1. DownsIn(G, e.id) = DownsIn(F, e.id) \cup {n + 1}
        BY <1>1, <1>2, <1>4, <2>1 DEF DownsIn
      <3>2. n + 1 \in Int /\ \A j \in DownsIn(G, e.id) : j \in Int /\ j <= n + 1
        BY <1>1, <1>2, <3>1
      <3>3. LastOf(DownsIn(G, e.id)) = n + 1
        BY <3>1, <3>2, LastIs
      <3> QED
        BY <1>1, <2>1, <3>1, <3>3 DEF BaseIn
    <2>2. CASE e.phase # "Down"
      <3>1. DownsIn(G, e.id) = DownsIn(F, e.id)
        BY <1>1, <1>2, <1>4, <2>2 DEF DownsIn
      <3>2. DownsIn(F, e.id) # {} => G[LastOf(DownsIn(F, e.id))] = F[LastOf(DownsIn(F, e.id))]
        BY <1>1, <1>2, LastExists
      <3> QED
        BY <2>2, <3>1, <3>2 DEF BaseIn
    <2> QED
      BY <2>1, <2>2
  <1> QED
    BY <1>3, <1>6, <1>7 DEF G

\* An empty frame says what the game already knew.
LEMMA EmptyFrame ==
    ASSUME NEW C, NEW id
    PROVE  ReplayedIn(<<>>, C, id) = C[id] /\ BaseIn(<<>>, C, id) = C[id]
  BY DEF ReplayedIn, BaseIn, DownsIn, MentionsIn

\* Where the game believes a pointer is, is a place or Unknown.
LEMMA ReplayedType ==
    ASSUME TouchTypeOK, FrameIsFinite
    PROVE  \A id \in PointerIds : Replayed(id) \in Positions \cup {Unknown}
  <1> SUFFICES ASSUME NEW id \in PointerIds PROVE Replayed(id) \in Positions \cup {Unknown}
    OBVIOUS
  <1>1. CASE Mentions(id) = {}
    BY <1>1 DEF TouchTypeOK, Replayed
  <1>2. CASE Mentions(id) # {}
    <2>1. LastOf(Mentions(id)) \in 1..Len(frameEvents)
      <3>1. Len(frameEvents) \in Nat /\ Mentions(id) \in SUBSET (1..Len(frameEvents))
        <4>1. frameEvents \in Seq(PointerEvents)
          BY DEF TouchTypeOK
        <4> QED
          BY <4>1, LenProperties DEF Mentions
      <3> QED
        BY <1>2, <3>1, LastExists
    <2> QED
      BY <1>2, <2>1 DEF FrameIsFinite, Replayed
  <1> QED
    BY <1>1, <1>2
-----------------------------------------------------------------------------
(* Cancelling and emptying the frame.                                      *)

\* The frame a cancellation may follow: the one there is, or an empty one.
OrderedUpTo(events) ==
    /\ events \in Seq(PointerEvents)
    /\ \A i \in 1..Len(events) : events[i].x \in Positions
    /\ \A i \in 1..(Len(events) - 1) :
          /\ events[i].ts <= events[i + 1].ts
          /\ events[i].generation <= events[i + 1].generation
    /\ events # <<>> =>
          /\ events[Len(events)].ts <= lastEventTime
          /\ events[Len(events)].generation <= lastTouchSurface

\* What an event is.
LEMMA EventTypes ==
    \A e \in PointerEvents :
        /\ e.id \in PointerIds /\ e.phase \in Phases /\ e.x \in Positions \cup {NonFinite}
        /\ e.ts \in 0..MaxTime /\ e.generation \in 1..MaxSurface
  BY DEF PointerEvents

\* The cancellations of all pointers are events.
LEMMA CancellationsType ==
    ASSUME TouchTypeOK, SurfaceIsNewest, activePointers # <<>>, NEW ts \in 0..MaxTime
    PROVE  /\ Cancellations(ts) \in Seq(PointerEvents)
           /\ Len(Cancellations(ts)) = Len(activePointers)
           /\ \A i \in Slots : /\ Cancellations(ts)[i].id = activePointers[i].id
                               /\ Cancellations(ts)[i].phase = "Cancel"
                               /\ Cancellations(ts)[i].x \in Positions
                               /\ Cancellations(ts)[i].ts = ts
                               /\ Cancellations(ts)[i].generation = lastTouchSurface
  <1>1. /\ activePointers \in Seq(PointerType)
        /\ touchSurface \in 1..MaxSurface /\ touchSurface = lastTouchSurface
    <2>1. activePointers \in Seq(PointerType)
      BY DEF TouchTypeOK, PointerType
    <2>2. touchSurface \in 0..MaxSurface /\ touchSurface # 0
      BY DEF TouchTypeOK
    <2> QED
      BY <2>1, <2>2, BoundAssumption DEF SurfaceIsNewest
  <1>2. \A i \in Slots : activePointers[i].id \in PointerIds /\ activePointers[i].x \in Positions
    <2>1. \A i \in Slots : activePointers[i] \in PointerType
      BY <1>1, ElementOfSeq DEF Slots
    <2> QED
      BY <2>1 DEF PointerType
  <1>3. \A i \in Slots : Cancellations(ts)[i] \in PointerEvents
    BY <1>1, <1>2 DEF Cancellations, PointerEvents, Phases
  <1>4. Len(activePointers) \in Nat
    BY <1>1, LenProperties
  <1> QED
    BY <1>1, <1>2, <1>3, <1>4 DEF Cancellations, Slots

\* Cancelling leaves every part of the invariant intact.
LEMMA CancelPreserves ==
    ASSUME TouchTypeOK, SurfaceIsNewest, NEW ts \in 0..MaxTime, NEW events,
           OrderedUpTo(events), CanCancel(ts, events), Len(events) <= MaxEvents,
           CancelPointers(ts, events), lastTouchSurface' = lastTouchSurface
    PROVE  /\ activePointers' = <<>> /\ Len(frameEvents') <= MaxEvents
           /\ lastEventTime' \in 0..MaxTime /\ lastEventTime' >= lastEventTime
           /\ OrderedUpTo(frameEvents)'
  <1>1. CASE activePointers = <<>>
    <2>0. Cancellations(ts) = <<>>
      BY <1>1 DEF Cancellations, Slots
    <2>1. frameEvents' = events \o <<>>
      BY <2>0 DEF CancelPointers
    <2>2. frameEvents' = events
      BY <2>1, ConcatEmptySeq DEF OrderedUpTo
    <2>3. lastEventTime' = lastEventTime /\ activePointers' = <<>>
      BY <1>1 DEF CancelPointers
    <2>4. lastEventTime \in 0..MaxTime
      BY DEF TouchTypeOK
    <2>5. OrderedUpTo(frameEvents)'
      BY <2>2, <2>3 DEF OrderedUpTo
    <2> QED
      BY <2>2, <2>3, <2>4, <2>5, BoundAssumption
  <1>2. CASE activePointers # <<>>
    <2> DEFINE c == Cancellations(ts)
               n == Len(events)
               m == Len(activePointers)
    <2>1. /\ c \in Seq(PointerEvents) /\ Len(c) = m
          /\ \A i \in 1..m : c[i].x \in Positions /\ c[i].ts = ts /\ c[i].generation = lastTouchSurface
      BY <1>2, CancellationsType DEF Slots
    <2>2. /\ m \in Nat /\ m # 0 /\ n \in Nat /\ n + m <= MaxEvents /\ ts >= lastEventTime
          /\ events \in Seq(PointerEvents)
      <3>1. activePointers \in Seq(PointerType) /\ events \in Seq(PointerEvents)
        BY DEF TouchTypeOK, OrderedUpTo, PointerType
      <3>2. m \in Nat /\ m # 0 /\ n \in Nat
        BY <1>2, <3>1, EmptySeq, LenProperties
      <3> QED
        BY <1>2, <3>1, <3>2, CapacityAssumption DEF CanCancel, CancelFits
    <2>3. frameEvents' = events \o c /\ lastEventTime' = ts /\ activePointers' = <<>>
      BY <1>2 DEF CancelPointers
    <2> HIDE DEF c, n, m
    <2>4. /\ frameEvents' \in Seq(PointerEvents) /\ Len(frameEvents') = n + m
          /\ \A i \in 1..n : frameEvents'[i] = events[i]
          /\ \A i \in 1..m : frameEvents'[n + i] = c[i]
      <3>1. /\ events \o c \in Seq(PointerEvents) /\ Len(events \o c) = n + m
            /\ \A i \in 1..(n + m) : (events \o c)[i] = IF i <= n THEN events[i] ELSE c[i - n]
        BY <2>1, <2>2, ConcatProperties DEF n
      <3>2. \A i \in 1..m : n + i \in 1..(n + m) /\ ~(n + i <= n) /\ n + i - n = i
        BY <2>2
      <3> QED
        BY <2>2, <2>3, <3>1, <3>2
    <2>5. /\ \A i \in 1..n : events[i].x \in Positions /\ events[i] \in PointerEvents
          /\ \A i \in 1..(n - 1) : /\ events[i].ts <= events[i + 1].ts
                                   /\ events[i].generation <= events[i + 1].generation
          /\ n # 0 => events[n].ts <= lastEventTime /\ events[n].generation <= lastTouchSurface
      <3>1. \A i \in 1..n : events[i] \in PointerEvents
        BY <2>2, ElementOfSeq DEF n
      <3>2. n # 0 => events # <<>>
        BY <2>2, EmptySeq DEF n
      <3> QED
        BY <3>1, <3>2 DEF OrderedUpTo, n
    <2>6. ts \in Int /\ lastEventTime \in Int /\ lastTouchSurface \in Int
      <3>1. lastEventTime \in 0..MaxTime /\ lastTouchSurface \in 0..MaxSurface
        BY TouchTypes
      <3> QED
        BY <3>1
    <2>7. \A i \in 1..(n + m) : frameEvents'[i].x \in Positions
      <3> SUFFICES ASSUME NEW i \in 1..(n + m) PROVE frameEvents'[i].x \in Positions
        OBVIOUS
      <3>1. CASE i <= n
        BY <3>1, <2>2, <2>4, <2>5
      <3>2. CASE ~(i <= n)
        <4>1. i - n \in 1..m /\ n + (i - n) = i
          BY <3>2, <2>2
        <4> QED
          BY <4>1, <2>1, <2>4
      <3> QED
        BY <3>1, <3>2
    <2>8. \A i \in 1..(n + m - 1) :
             /\ frameEvents'[i].ts <= frameEvents'[i + 1].ts
             /\ frameEvents'[i].generation <= frameEvents'[i + 1].generation
      <3> SUFFICES ASSUME NEW i \in 1..(n + m - 1)
                   PROVE  /\ frameEvents'[i].ts <= frameEvents'[i + 1].ts
                          /\ frameEvents'[i].generation <= frameEvents'[i + 1].generation
        OBVIOUS
      <3>1. CASE i < n
        <4>1. i \in 1..(n - 1) /\ i \in 1..n /\ i + 1 \in 1..n
          BY <3>1, <2>2
        <4> QED
          BY <4>1, <2>4, <2>5
      <3>2. CASE i = n
        <4>1. n \in 1..n /\ 1 \in 1..m
          BY <3>2, <2>2
        <4>2. frameEvents'[i] = events[n] /\ frameEvents'[i + 1] = c[1] /\ n # 0
          BY <4>1, <3>2, <2>4
        <4>3. events[n] \in PointerEvents
          BY <4>1, <2>5
        <4> QED
          BY <4>1, <4>2, <4>3, <2>1, <2>2, <2>5, <2>6, EventTypes
      <3>3. CASE i > n
        <4>1. /\ i - n \in 1..m /\ i + 1 - n \in 1..m
              /\ n + (i - n) = i /\ n + (i + 1 - n) = i + 1
          BY <3>3, <2>2
        <4>2. frameEvents'[i] = c[i - n] /\ frameEvents'[i + 1] = c[i + 1 - n]
          BY <4>1, <2>4
        <4> QED
          BY <4>1, <4>2, <2>1, <2>6
      <3> QED
        BY <3>1, <3>2, <3>3, <2>2
    <2>9. /\ frameEvents'[Len(frameEvents')].ts <= lastEventTime'
          /\ frameEvents'[Len(frameEvents')].generation <= lastTouchSurface'
      <3>1. m \in 1..m
        BY <2>2
      <3>2. frameEvents'[n + m] = c[m]
        BY <3>1, <2>4
      <3> QED
        BY <3>1, <3>2, <2>1, <2>3, <2>4, <2>6
    <2>10. OrderedUpTo(frameEvents)'
      <3>1. \A i \in 1..Len(frameEvents') : frameEvents'[i].x \in Positions
        BY <2>4, <2>7
      <3>2. \A i \in 1..(Len(frameEvents') - 1) :
               /\ frameEvents'[i].ts <= frameEvents'[i + 1].ts
               /\ frameEvents'[i].generation <= frameEvents'[i + 1].generation
        <4>1. Len(frameEvents') - 1 = n + m - 1
          BY <2>2, <2>4
        <4> QED
          BY <4>1, <2>8
      <3> QED
        BY <3>1, <3>2, <2>4, <2>9 DEF OrderedUpTo
    <2> QED
      BY <2>2, <2>3, <2>4, <2>6, <2>10
  <1> QED
    BY <1>1, <1>2
-----------------------------------------------------------------------------
(* One lemma per operation.                                                *)

\* The parts of the invariant that speak of the frame.
LEMMA FrameParts ==
    FrameIsOrdered /\ FrameIsFinite /\ frameEvents \in Seq(PointerEvents) <=> OrderedUpTo(frameEvents)
  BY DEF FrameIsOrdered, FrameIsFinite, OrderedUpTo

\* An empty frame is in order.
LEMMA EmptyIsOrdered == OrderedUpTo(<<>>) /\ Len(<<>>) = 0
  BY DEF OrderedUpTo

\* After a step that leaves no active pointers only the frame and the
\* surface are left to check.
LEMMA NoPointers ==
    ASSUME activePointers' = <<>>, OrderedUpTo(frameEvents)', Len(frameEvents') <= MaxEvents,
           touchSurface' \in 0..MaxSurface, lastTouchSurface' \in 0..MaxSurface,
           lastEventTime' \in 0..MaxTime, batch' \in {"closed", "open"},
           consumer' \in [PointerIds -> Positions \cup {Unknown}], SurfaceIsNewest'
    PROVE  TouchInv'
  <1>1. Slots' = {} /\ Len(activePointers') <= MaxPointers
    BY CapacityAssumption DEF Slots
  <1>2. TouchTypeOK'
    <2>1. activePointers' \in Seq([id : PointerIds, x : Positions, delta : Int, ts : 0..MaxTime])
      BY EmptySeq
    <2> QED
      BY <1>1, <2>1 DEF TouchTypeOK, OrderedUpTo
  <1>3. FrameIsOrdered' /\ FrameIsFinite'
    BY DEF OrderedUpTo, FrameIsOrdered, FrameIsFinite
  <1>4. OnePerPointer' /\ FrameExplainsPointers'
    BY <1>1 DEF OnePerPointer, FrameExplainsPointers
  <1> QED
    BY <1>2, <1>3, <1>4 DEF TouchInv, TouchInvariant, CleanupSucceeds

\* attach_surface.
LEMMA AttachStep ==
    ASSUME TouchInv, NEW g \in 1..MaxSurface, AttachSurface(g)
    PROVE  TouchInv'
  <1>1. /\ TouchTypeOK /\ OrderedUpTo(frameEvents) /\ Len(frameEvents) <= MaxEvents
        /\ activePointers = <<>> /\ batch = "closed" /\ lastTouchSurface < g
    BY FrameParts DEF TouchInv, TouchInvariant, TouchTypeOK, AttachSurface, Attachable
  <1>2. /\ activePointers' = <<>> /\ frameEvents' = frameEvents /\ touchSurface' = g
        /\ lastTouchSurface' = g /\ lastEventTime' = lastEventTime
        /\ batch' = batch /\ consumer' = consumer
    BY <1>1 DEF AttachSurface
  <1>3. OrderedUpTo(frameEvents)'
    <2>1. frameEvents # <<>> => frameEvents[Len(frameEvents)].generation <= g
      <3> SUFFICES ASSUME frameEvents # <<>>
                   PROVE  frameEvents[Len(frameEvents)].generation <= g
        OBVIOUS
      <3>1. frameEvents[Len(frameEvents)] \in PointerEvents
        <4>1. Len(frameEvents) \in 1..Len(frameEvents) /\ frameEvents \in Seq(PointerEvents)
          BY <1>1, EmptySeq, LenProperties DEF OrderedUpTo
        <4> QED
          BY <4>1, ElementOfSeq
      <3>2. /\ frameEvents[Len(frameEvents)].generation \in 1..MaxSurface
            /\ lastTouchSurface \in 0..MaxSurface
            /\ frameEvents[Len(frameEvents)].generation <= lastTouchSurface
        BY <1>1, <3>1, EventTypes, TouchTypes DEF OrderedUpTo
      <3> QED
        BY <1>1, <3>2
    <2> QED
      BY <1>1, <1>2, <2>1 DEF OrderedUpTo
  <1>4. touchSurface' \in 0..MaxSurface /\ lastTouchSurface' \in 0..MaxSurface /\ SurfaceIsNewest'
    BY <1>2, BoundAssumption DEF SurfaceIsNewest
  <1>5. lastEventTime \in 0..MaxTime /\ consumer \in [PointerIds -> Positions \cup {Unknown}]
    BY <1>1, TouchTypes
  <1> QED
    BY <1>1, <1>2, <1>3, <1>4, <1>5, NoPointers

\* Every cancellation, of a shell or of a rejected batch.
LEMMA CancelStep ==
    ASSUME TouchInv, NEW ts \in 0..MaxTime, NEW events \in {frameEvents, <<>>},
           CanCancel(ts, events), CancelPointers(ts, events),
           touchSurface' \in {touchSurface, 0}, lastTouchSurface' = lastTouchSurface,
           batch' \in {"closed", "open"}, consumer' = consumer
    PROVE  TouchInv'
  <1>1. /\ TouchTypeOK /\ SurfaceIsNewest
        /\ OrderedUpTo(frameEvents) /\ Len(frameEvents) <= MaxEvents
    BY FrameParts DEF TouchInv, TouchInvariant, TouchTypeOK
  <1>2. OrderedUpTo(events) /\ Len(events) <= MaxEvents
    BY <1>1, EmptyIsOrdered, CapacityAssumption
  <1>3. /\ activePointers' = <<>> /\ Len(frameEvents') <= MaxEvents
        /\ lastEventTime' \in 0..MaxTime /\ OrderedUpTo(frameEvents)'
    BY <1>1, <1>2, CancelPreserves
  <1>4. /\ touchSurface \in 0..MaxSurface /\ lastTouchSurface \in 0..MaxSurface
        /\ consumer \in [PointerIds -> Positions \cup {Unknown}]
    BY <1>1, TouchTypes
  <1>5. touchSurface' \in 0..MaxSurface /\ SurfaceIsNewest'
    BY <1>1, <1>4, BoundAssumption DEF SurfaceIsNewest
  <1> QED
    BY <1>3, <1>4, <1>5, NoPointers

\* The clean-up of a rejected batch finds room, because an empty frame has
\* room for every pointer.
LEMMA RejectedStep ==
    ASSUME TouchInv, BatchRejected
    PROVE  TouchInv' /\ CancelPointers(lastEventTime, <<>>)
  <1>1. CanCancel(lastEventTime, <<>>)
    <2>1. /\ Len(activePointers) \in 0..MaxPointers /\ lastEventTime \in 0..MaxTime
          /\ activePointers # <<>> => touchSurface # 0
      BY TouchTypes DEF TouchInv, TouchInvariant
    <2>2. Len(activePointers) <= MaxEvents - Len(<<>>)
      BY <2>1, CapacityAssumption
    <2> QED
      BY <2>1, <2>2, BoundAssumption DEF CanCancel, CancelFits
  <1>2. CancelPointers(lastEventTime, <<>>) /\ batch' = "closed"
    BY <1>1 DEF BatchRejected
  <1>3. lastEventTime \in 0..MaxTime
    BY TouchTypes DEF TouchInv, TouchInvariant
  <1> QED
    BY <1>1, <1>2, <1>3, CancelStep DEF BatchRejected

\* detach_surface and cancel_all.
LEMMA ShellCancelStep ==
    ASSUME TouchInv, NEW ts \in 0..MaxTime, CancelWithRetry(ts),
           touchSurface' \in {touchSurface, 0},
           UNCHANGED <<lastTouchSurface, batch, consumer>>
    PROVE  TouchInv'
  <1>1. PICK events \in {frameEvents, <<>>} : CanCancel(ts, events) /\ CancelPointers(ts, events)
    BY DEF CancelWithRetry
  <1>2. batch \in {"closed", "open"}
    BY TouchTypes DEF TouchInv, TouchInvariant, CleanupSucceeds
  <1> QED
    BY <1>1, <1>2, CancelStep

\* The end of a batch, and stuttering.
LEMMA BatchEndsStep ==
    ASSUME TouchInv, BatchEnds \/ UNCHANGED touchVars
    PROVE  TouchInv'
  <1>1. /\ activePointers' = activePointers /\ frameEvents' = frameEvents
        /\ touchSurface' = touchSurface /\ lastTouchSurface' = lastTouchSurface
        /\ lastEventTime' = lastEventTime /\ consumer' = consumer /\ batch' \in {batch, "closed"}
    BY DEF BatchEnds, inputVars, touchVars
  <1>2. TouchTypeOK' /\ CleanupSucceeds'
    BY <1>1 DEF TouchInv, TouchInvariant, TouchTypeOK, CleanupSucceeds
  <1>3. FrameIsOrdered' /\ FrameIsFinite' /\ SurfaceIsNewest' /\ OnePerPointer'
    BY <1>1 DEF TouchInv, TouchInvariant, FrameIsOrdered, FrameIsFinite, SurfaceIsNewest, OnePerPointer,
                Slots
  <1>4. FrameExplainsPointers'
    BY <1>1 DEF TouchInv, FrameExplainsPointers, Slots, Mentions, Replayed
  <1> QED
    BY <1>2, <1>3, <1>4 DEF TouchInv, TouchInvariant

\* Emptying the frame forgets how the pointers moved, and nothing else of
\* them.
LEMMA BeginFrameKeepsPointers ==
    ASSUME TouchTypeOK, BeginFrame
    PROVE  /\ activePointers' \in Seq(PointerType) /\ Len(activePointers') = Len(activePointers)
           /\ Slots' = Slots
           /\ \A i \in Slots : /\ activePointers'[i].id = activePointers[i].id
                               /\ activePointers'[i].x = activePointers[i].x
                               /\ activePointers'[i].delta = 0
  <1>1. /\ activePointers \in Seq(PointerType) /\ Len(activePointers) \in 0..MaxPointers
        /\ \A i \in Slots : activePointers[i] \in PointerType
    BY TouchTypes, ElementOfSeq DEF Slots
  <1>2. activePointers' = [i \in Slots |-> [activePointers[i] EXCEPT !.delta = 0]]
    BY DEF BeginFrame
  <1>3. \A i \in Slots : [activePointers[i] EXCEPT !.delta = 0] \in PointerType
    <2>1. \A p \in PointerType : [p EXCEPT !.delta = 0] \in PointerType
      BY DEF PointerType
    <2> QED
      BY <1>1, <2>1
  <1>4. \A i \in Slots : /\ activePointers'[i].id = activePointers[i].id
                         /\ activePointers'[i].x = activePointers[i].x
                         /\ activePointers'[i].delta = 0
    BY <1>1, <1>2 DEF PointerType
  <1> QED
    BY <1>1, <1>2, <1>3, <1>4 DEF Slots

\* The game saw the frame: what it believed at its end is what it knows, and
\* the deltas start again.
LEMMA FrameStep ==
    ASSUME TouchInv, ProcessInputFrame
    PROVE  TouchInv'
  <1>1. /\ TouchTypeOK /\ FrameIsFinite /\ OnePerPointer /\ SurfaceIsNewest /\ CleanupSucceeds
        /\ FrameExplainsPointers
    BY DEF TouchInv, TouchInvariant
  <1>2. /\ activePointers \in Seq(PointerType) /\ Len(activePointers) \in 0..MaxPointers
        /\ \A i \in Slots : activePointers[i] \in PointerType
    BY <1>1, TouchTypes, ElementOfSeq DEF Slots
  <1>3. /\ frameEvents' = <<>> /\ consumer' = [id \in PointerIds |-> Replayed(id)]
        /\ UNCHANGED <<touchSurface, lastTouchSurface, lastEventTime, batch>>
    BY DEF ProcessInputFrame, BeginFrame
  <1>4. /\ activePointers' \in Seq(PointerType) /\ Len(activePointers') = Len(activePointers)
        /\ Slots' = Slots
        /\ \A i \in Slots : /\ activePointers'[i].id = activePointers[i].id
                            /\ activePointers'[i].x = activePointers[i].x
                            /\ activePointers'[i].delta = 0
    BY <1>1, BeginFrameKeepsPointers DEF ProcessInputFrame
  <1>5. TouchTypeOK'
    <2>1. consumer' \in [PointerIds -> Positions \cup {Unknown}]
      BY <1>1, <1>3, ReplayedType
    <2>2. frameEvents' \in Seq(PointerEvents) /\ Len(frameEvents') <= MaxEvents
      BY <1>3, EmptySeq, CapacityAssumption
    <2>3. activePointers' # <<>> => activePointers # <<>>
      BY <1>2, <1>4, EmptySeq
    <2>4. Len(activePointers') <= MaxPointers
      BY <1>2, <1>4
    <2> QED
      BY <1>1, <1>3, <1>4, <2>1, <2>2, <2>3, <2>4 DEF TouchTypeOK, PointerType
  <1>6. FrameIsOrdered' /\ FrameIsFinite'
    BY <1>3 DEF FrameIsOrdered, FrameIsFinite
  <1>7. OnePerPointer' /\ SurfaceIsNewest' /\ CleanupSucceeds'
    <2>1. OnePerPointer'
      BY <1>1, <1>4 DEF OnePerPointer
    <2> QED
      BY <1>1, <1>3, <2>1 DEF SurfaceIsNewest, CleanupSucceeds
  <1>8. FrameExplainsPointers'
    <2>1. \A i \in Slots : /\ activePointers[i].id \in PointerIds /\ activePointers[i].x \in Positions
                           /\ consumer'[activePointers[i].id] = activePointers[i].x
      <3>1. \A i \in Slots : activePointers[i].id \in PointerIds /\ activePointers[i].x \in Positions
        BY <1>2 DEF PointerType
      <3>2. \A i \in Slots : Replayed(activePointers[i].id) = activePointers[i].x
        BY <1>1 DEF FrameExplainsPointers
      <3> QED
        BY <1>3, <3>1, <3>2
    <2>2. ExplainsAll(<<>>, consumer', activePointers')
      <3> SUFFICES ASSUME NEW i \in Slots PROVE Explains(<<>>, consumer', activePointers'[i])
        BY <1>4 DEF ExplainsAll, Slots
      <3>1. /\ ReplayedIn(<<>>, consumer', activePointers'[i].id) = activePointers'[i].x
            /\ BaseIn(<<>>, consumer', activePointers'[i].id) = activePointers'[i].x
        BY <1>4, <2>1, EmptyFrame
      <3> QED
        <4>1. activePointers'[i].x \in Positions /\ activePointers'[i].x \in Int
          BY <1>4, <2>1, PositionAssumption
        <4>2. activePointers'[i].delta = 0
          BY <1>4
        <4> QED
          BY <3>1, <4>1, <4>2 DEF Explains
    <2> QED
      BY <1>3, <2>2, ExplainedNext
  <1> QED
    BY <1>5, <1>6, <1>7, <1>8 DEF TouchInv, TouchInvariant
-----------------------------------------------------------------------------
(* process: an accepted event.                                             *)

\* A pointer after the event is one of another identity, untouched, or the
\* one that went down, or the one that moved.
CameFrom(p, e) ==
    \/ \E k \in Slots : p = activePointers[k] /\ p.id # e.id
    \/ e.phase = "Down" /\ p = [id |-> e.id, x |-> e.x, delta |-> 0, ts |-> e.ts]
    \/ e.phase = "Move" /\ \E k \in Slots : activePointers[k].id = e.id /\ p = Moved(activePointers[k], e)

\* find_pointer finds the pointer of an identity.
LEMMA FindPointerIs ==
    ASSUME OnePerPointer, NEW k \in Slots
    PROVE  FindPointer(activePointers[k].id) = k
  BY DEF FindPointer, OnePerPointer

\* What an event makes of the pointers.
LEMMA ProcessedPointers ==
    ASSUME TouchTypeOK, OnePerPointer, NEW e \in PointerEvents, Accepts(e),
           NEW A, A = PointersAfter(e)
    PROVE  /\ A \in Seq(PointerType) /\ Len(A) <= MaxPointers
           /\ \A i \in 1..Len(A) : CameFrom(A[i], e)
           /\ \A i, j \in 1..Len(A) : A[i].id = A[j].id => i = j
           /\ \A k \in Slots : (activePointers[k].id = e.id /\ e.phase \in Ending)
                              \/ \E i \in 1..Len(A) : A[i].id = activePointers[k].id
  <1> DEFINE n == Len(activePointers)
  <1>1. /\ activePointers \in Seq(PointerType) /\ n \in Nat /\ n <= MaxPointers
        /\ \A i \in 1..n : activePointers[i] \in PointerType
    <2>1. activePointers \in Seq(PointerType) /\ n \in 0..MaxPointers
      BY TouchTypes
    <2> QED
      BY <2>1, ElementOfSeq, CapacityAssumption
  <1>2. /\ e.id \in PointerIds /\ e.x \in Positions /\ e.x \in Int /\ e.ts \in 0..MaxTime
        /\ e.phase \in Phases
    BY EventTypes, PositionAssumption DEF Accepts
  <1>3. \A i \in 1..n : activePointers[i].x \in Int /\ activePointers[i].delta \in Int
                       /\ activePointers[i].id \in PointerIds
    BY <1>1, PositionAssumption DEF PointerType
  <1>4. CASE e.phase = "Down"
    <2> DEFINE new == [id |-> e.id, x |-> e.x, delta |-> 0, ts |-> e.ts]
    <2>1. new \in PointerType
      BY <1>2 DEF PointerType
    <2>2. A = Append(activePointers, new)
      BY <1>4 DEF PointersAfter, Ending
    <2>3. new.id = e.id
      OBVIOUS
    <2>4. CameFrom(new, e)
      BY <1>4 DEF CameFrom
    <2> HIDE DEF new
    <2>5. /\ A \in Seq(PointerType) /\ Len(A) = n + 1 /\ A[n + 1] = new
          /\ \A i \in 1..n : A[i] = activePointers[i]
      BY <1>1, <2>1, <2>2, AppendProperties
    <2>6. n < MaxPointers /\ \A i \in 1..n : activePointers[i].id # e.id
      BY <1>4 DEF Accepts, ActiveIds, Slots
    <2>7. \A i \in 1..(n + 1) : i \in 1..n \/ i = n + 1
      BY <1>1
    <2>8. \A i \in 1..n : CameFrom(activePointers[i], e)
      BY <2>6 DEF CameFrom, Slots
    <2>9. \A i \in 1..(n + 1) : CameFrom(A[i], e)
      BY <2>4, <2>5, <2>7, <2>8
    <2>10. \A i, j \in 1..(n + 1) : A[i].id = A[j].id => i = j
      <3>1. \A i \in 1..n : A[i].id # e.id /\ A[n + 1].id = e.id
        BY <2>3, <2>5, <2>6
      <3>2. \A i, j \in 1..n : A[i].id = A[j].id => i = j
        BY <2>5 DEF OnePerPointer, Slots
      <3> QED
        BY <2>7, <3>1, <3>2
    <2>11. \A k \in Slots : k \in 1..(n + 1) /\ A[k].id = activePointers[k].id
      BY <1>1, <2>5 DEF Slots
    <2> QED
      BY <1>1, <2>5, <2>6, <2>9, <2>10, <2>11, CapacityAssumption
  <1>5. CASE e.phase = "Move"
    <2>1. A = [i \in 1..n |-> IF activePointers[i].id = e.id
                              THEN Moved(activePointers[i], e)
                              ELSE activePointers[i]]
      BY <1>5 DEF PointersAfter, Ending, Slots
    <2>2. \A i \in 1..n : Moved(activePointers[i], e) \in PointerType
                         /\ Moved(activePointers[i], e).id = activePointers[i].id
      <3> SUFFICES ASSUME NEW i \in 1..n
                   PROVE  /\ Moved(activePointers[i], e) \in PointerType
                          /\ Moved(activePointers[i], e).id = activePointers[i].id
        OBVIOUS
      <3>1. activePointers[i] \in PointerType
        BY <1>1
      <3>2. activePointers[i].delta + (e.x - activePointers[i].x) \in Int
        BY <1>2, <1>3
      <3> QED
        BY <1>2, <3>1, <3>2 DEF Moved, PointerType
    <2>3. A \in Seq(PointerType) /\ Len(A) = n
      BY <1>1, <2>1, <2>2
    <2>4. \A i \in 1..n : A[i].id = activePointers[i].id
      BY <2>1, <2>2
    <2>5. \A i \in 1..n : CameFrom(A[i], e)
      BY <1>5, <2>1 DEF CameFrom, Slots
    <2> QED
      BY <1>1, <2>3, <2>4, <2>5 DEF OnePerPointer, Slots
  <1>6. CASE e.phase \in Ending
    <2>1. PICK k \in 1..n : activePointers[k].id = e.id
      BY <1>6 DEF Accepts, ActiveIds, Slots, Ending
    <2>2. A = RemoveAt(activePointers, k)
      <3>1. A = Without(e.id)
        BY <1>6 DEF PointersAfter, Ending
      <3>2. FindPointer(e.id) = k
        BY <2>1, FindPointerIs DEF Slots
      <3> QED
        BY <3>1, <3>2 DEF Without
    <2>3. /\ A \in Seq(PointerType) /\ Len(A) = n - 1
          /\ \A i \in 1..(n - 1) : A[i] = IF i < k THEN activePointers[i] ELSE activePointers[i + 1]
      BY <1>1, <2>2, EraseProperties
    <2> DEFINE from(i) == IF i < k THEN i ELSE i + 1
    <2>4. \A i \in 1..(n - 1) : from(i) \in 1..n /\ from(i) # k /\ A[i] = activePointers[from(i)]
      BY <1>1, <2>3
    <2>5. \A i, j \in 1..(n - 1) : from(i) = from(j) => i = j
      BY <1>1
    <2> HIDE DEF from
    <2>6. \A i, j \in 1..(n - 1) : A[i].id = A[j].id => i = j
      <3> SUFFICES ASSUME NEW i \in 1..(n - 1), NEW j \in 1..(n - 1), A[i].id = A[j].id
                   PROVE  i = j
        OBVIOUS
      <3>1. activePointers[from(i)].id = activePointers[from(j)].id
        BY <2>4
      <3>2. from(i) = from(j)
        BY <2>4, <3>1 DEF OnePerPointer, Slots
      <3> QED
        BY <2>5, <3>2
    <2>7. \A i \in 1..(n - 1) : CameFrom(A[i], e)
      BY <2>1, <2>4 DEF OnePerPointer, CameFrom, Slots
    <2>8. ASSUME NEW j \in Slots, j # k
          PROVE  \E i \in 1..Len(A) : A[i].id = activePointers[j].id
      <3> DEFINE i == IF j < k THEN j ELSE j - 1
      <3>1. i \in 1..(n - 1) /\ from(i) = j
        BY <1>1, <2>8 DEF from, Slots
      <3> QED
        BY <2>3, <2>4, <3>1
    <2>9. \A j \in Slots : (activePointers[j].id = e.id /\ e.phase \in Ending)
                         \/ \E i \in 1..Len(A) : A[i].id = activePointers[j].id
      BY <1>6, <2>1, <2>8
    <2>10. Len(A) <= MaxPointers
      BY <1>1, <2>3, CapacityAssumption
    <2> QED
      BY <2>3, <2>6, <2>7, <2>9, <2>10
  <1> QED
    BY <1>2, <1>4, <1>5, <1>6 DEF Phases, Ending

\* One event of a batch that is accepted.
LEMMA ProcessStep ==
    ASSUME TouchInv, NEW e \in PointerEvents, Process(e)
    PROVE  TouchInv'
  <1>1. /\ TouchTypeOK /\ OnePerPointer /\ FrameIsOrdered /\ FrameIsFinite /\ SurfaceIsNewest
        /\ ExplainsAll(frameEvents, consumer, activePointers)
    BY Explained DEF TouchInv, TouchInvariant
  <1>2. /\ frameEvents \in Seq(PointerEvents) /\ Len(frameEvents) \in 0..MaxEvents
        /\ activePointers \in Seq(PointerType) /\ Len(activePointers) \in Nat
        /\ lastEventTime \in Int /\ lastTouchSurface \in 0..MaxSurface /\ touchSurface \in 0..MaxSurface
        /\ consumer \in [PointerIds -> Positions \cup {Unknown}]
    <2>1. /\ frameEvents \in Seq(PointerEvents) /\ Len(frameEvents) \in 0..MaxEvents
          /\ activePointers \in Seq(PointerType) /\ Len(activePointers) \in 0..MaxPointers
          /\ touchSurface \in 0..MaxSurface /\ lastTouchSurface \in 0..MaxSurface
          /\ lastEventTime \in 0..MaxTime
          /\ consumer \in [PointerIds -> Positions \cup {Unknown}]
      BY <1>1, TouchTypes
    <2>2. Len(activePointers) \in Nat /\ lastEventTime \in Int
      BY <2>1
    <2> QED
      BY <2>1, <2>2
  <1>3. /\ e.id \in PointerIds /\ e.x \in Positions /\ e.x \in Int /\ e.ts \in 0..MaxTime
        /\ e.phase \in Phases /\ e.generation = touchSurface /\ touchSurface # 0
        /\ lastEventTime <= e.ts /\ Len(frameEvents) < MaxEvents /\ Accepts(e)
    BY <1>2, EventTypes, PositionAssumption DEF Process, Accepts
  <1>4. /\ activePointers' = PointersAfter(e) /\ frameEvents' = Append(frameEvents, e)
        /\ lastEventTime' = e.ts /\ batch' = "open"
        /\ touchSurface' = touchSurface /\ lastTouchSurface' = lastTouchSurface /\ consumer' = consumer
    BY DEF Process
  <1>5. /\ activePointers' \in Seq(PointerType) /\ Len(activePointers') <= MaxPointers
        /\ \A i \in 1..Len(activePointers') : CameFrom(activePointers'[i], e)
        /\ \A i, j \in 1..Len(activePointers') : activePointers'[i].id = activePointers'[j].id => i = j
    BY <1>1, <1>3, <1>4, ProcessedPointers
  <1>6. /\ frameEvents' \in Seq(PointerEvents) /\ Len(frameEvents') = Len(frameEvents) + 1
        /\ Len(frameEvents') <= MaxEvents
        /\ frameEvents'[Len(frameEvents) + 1] = e
        /\ \A i \in 1..Len(frameEvents) : frameEvents'[i] = frameEvents[i]
    BY <1>2, <1>3, <1>4, AppendProperties, CapacityAssumption
  <1>7. TouchTypeOK'
    BY <1>1, <1>2, <1>3, <1>4, <1>5, <1>6 DEF TouchTypeOK, PointerType
  <1>8. FrameIsFinite'
    <2>1. \A i \in 1..Len(frameEvents') : i \in 1..Len(frameEvents) \/ i = Len(frameEvents) + 1
      BY <1>2, <1>6
    <2> QED
      BY <2>1, <1>1, <1>3, <1>6 DEF FrameIsFinite
  <1>9. FrameIsOrdered'
    <2> DEFINE n == Len(frameEvents)
    <2>1. n \in Nat /\ Len(frameEvents') = n + 1
      BY <1>2, <1>6
    <2>2. n # 0 => frameEvents[n].ts <= e.ts /\ frameEvents[n].generation <= e.generation
      <3> SUFFICES ASSUME n # 0
                   PROVE  frameEvents[n].ts <= e.ts /\ frameEvents[n].generation <= e.generation
        OBVIOUS
      <3>1. frameEvents # <<>> /\ n \in 1..n
        BY <2>1, EmptySeq
      <3>2. frameEvents[n].ts <= lastEventTime /\ frameEvents[n].generation <= lastTouchSurface
        BY <1>1, <3>1 DEF FrameIsOrdered
      <3>3. frameEvents[n] \in PointerEvents
        BY <1>2, <3>1, ElementOfSeq
      <3>4. e.generation = lastTouchSurface
        BY <1>1, <1>3 DEF SurfaceIsNewest
      <3> QED
        BY <1>2, <1>3, <3>2, <3>3, <3>4, EventTypes
    <2>3. ASSUME NEW i \in 1..n
          PROVE  /\ frameEvents'[i].ts <= frameEvents'[i + 1].ts
                 /\ frameEvents'[i].generation <= frameEvents'[i + 1].generation
      <3>1. CASE i = n
        BY <3>1, <2>1, <2>2, <1>6
      <3>2. CASE i # n
        <4>1. i \in 1..(n - 1) /\ i \in 1..n /\ i + 1 \in 1..n
          BY <3>2, <2>1
        <4> QED
          BY <4>1, <1>1, <1>6 DEF FrameIsOrdered
      <3> QED
        BY <3>1, <3>2
    <2>4. /\ frameEvents'[Len(frameEvents')].ts <= lastEventTime'
          /\ frameEvents'[Len(frameEvents')].generation <= lastTouchSurface'
      <3>1. e.generation = lastTouchSurface /\ e.ts \in Int /\ lastTouchSurface \in Int
        BY <1>1, <1>2, <1>3 DEF SurfaceIsNewest
      <3> QED
        BY <1>4, <1>6, <3>1
    <2>5. \A i \in 1..(Len(frameEvents') - 1) : i \in 1..n
      BY <2>1
    <2> QED
      BY <2>3, <2>4, <2>5 DEF FrameIsOrdered
  <1>10. OnePerPointer' /\ SurfaceIsNewest' /\ CleanupSucceeds'
    BY <1>1, <1>4, <1>5 DEF OnePerPointer, SurfaceIsNewest, CleanupSucceeds, Slots
  <1>11. FrameExplainsPointers'
    <2> SUFFICES ASSUME NEW i \in 1..Len(activePointers')
                 PROVE  Explains(frameEvents', consumer, activePointers'[i])
      BY <1>4, ExplainedNext DEF ExplainsAll
    <2> DEFINE p == activePointers'[i]
    <2>1. \A k \in Slots : Explains(frameEvents, consumer, activePointers[k])
      BY <1>1 DEF ExplainsAll, Slots
    <2>2. /\ \A id : id # e.id =>
                /\ ReplayedIn(frameEvents', consumer, id) = ReplayedIn(frameEvents, consumer, id)
                /\ BaseIn(frameEvents', consumer, id) = BaseIn(frameEvents, consumer, id)
          /\ ReplayedIn(frameEvents', consumer, e.id) = IF e.phase \in Ending THEN Unknown ELSE e.x
          /\ BaseIn(frameEvents', consumer, e.id) =
                IF e.phase = "Down" THEN e.x ELSE BaseIn(frameEvents, consumer, e.id)
      BY <1>2, <1>4, AppendToFrame
    <2>3. CASE \E k \in Slots : p = activePointers[k] /\ p.id # e.id
      BY <2>1, <2>2, <2>3 DEF Explains
    <2>4. CASE e.phase = "Down" /\ p = [id |-> e.id, x |-> e.x, delta |-> 0, ts |-> e.ts]
      BY <1>3, <2>2, <2>4 DEF Explains, Ending
    <2>5. CASE e.phase = "Move" /\ \E k \in Slots : activePointers[k].id = e.id /\ p = Moved(activePointers[k], e)
      <3>1. PICK k \in Slots : activePointers[k].id = e.id /\ p = Moved(activePointers[k], e)
        BY <2>5
      <3>2. activePointers[k] \in PointerType
        BY <1>2, ElementOfSeq DEF Slots
      <3>3. /\ p.id = e.id /\ p.x = e.x
            /\ p.delta = activePointers[k].delta + (e.x - activePointers[k].x)
        BY <3>1, <3>2 DEF Moved, PointerType
      <3>4. /\ BaseIn(frameEvents, consumer, e.id) \in Positions
            /\ activePointers[k].x = BaseIn(frameEvents, consumer, e.id) + activePointers[k].delta
        BY <2>1, <3>1 DEF Explains
      <3>5. /\ activePointers[k].x \in Int /\ activePointers[k].delta \in Int
            /\ BaseIn(frameEvents, consumer, e.id) \in Int
        BY <3>2, <3>4, PositionAssumption DEF PointerType
      <3>6. e.x = BaseIn(frameEvents, consumer, e.id) + p.delta
        BY <1>3, <3>3, <3>4, <3>5
      <3>7. /\ ReplayedIn(frameEvents', consumer, e.id) = e.x
            /\ BaseIn(frameEvents', consumer, e.id) = BaseIn(frameEvents, consumer, e.id)
        BY <2>2, <2>5 DEF Ending
      <3> QED
        BY <3>3, <3>4, <3>6, <3>7 DEF Explains
    <2> QED
      BY <1>5, <2>3, <2>4, <2>5 DEF CameFrom
  <1> QED
    BY <1>7, <1>8, <1>9, <1>10, <1>11 DEF TouchInv, TouchInvariant
-----------------------------------------------------------------------------
(* The invariant and what follows from it.                                 *)

LEMMA TouchStepInv == TouchInv /\ [TouchNext]_touchVars => TouchInv'
  <1> SUFFICES ASSUME TouchInv, [TouchNext]_touchVars
               PROVE  TouchInv'
    OBVIOUS
  <1>1. ASSUME NEW g \in 1..MaxSurface, AttachSurface(g) PROVE TouchInv'
    BY <1>1, AttachStep
  <1>2. ASSUME NEW g \in 1..MaxSurface, NEW ts \in 0..MaxTime, DetachSurface(g, ts) PROVE TouchInv'
    BY <1>2, ShellCancelStep DEF DetachSurface
  <1>3. ASSUME NEW ts \in 0..MaxTime, CancelTouchInput(ts) PROVE TouchInv'
    BY <1>3, ShellCancelStep DEF CancelTouchInput
  <1>4. ASSUME NEW e \in PointerEvents, Process(e) PROVE TouchInv'
    BY <1>4, ProcessStep
  <1>5. CASE BatchRejected
    BY <1>5, RejectedStep
  <1>6. CASE BatchEnds \/ UNCHANGED touchVars
    BY <1>6, BatchEndsStep
  <1>7. CASE ProcessInputFrame
    BY <1>7, FrameStep
  <1> QED
    BY <1>1, <1>2, <1>3, <1>4, <1>5, <1>6, <1>7 DEF TouchNext

\* TouchInv is inductive, and holds in every reachable state.
THEOREM TouchCorrect == TouchSpec => []TouchInv
  BY TouchInitInv, TouchStepInv, PTL DEF TouchSpec

\* The capacities, the types and the order of the frame.
THEOREM TouchInvariantHolds == TouchSpec => []TouchInvariant
  <1>1. TouchInv => TouchInvariant
    BY DEF TouchInv
  <1> QED
    BY <1>1, TouchCorrect, PTL

\* process_batch never reports its Internal error.
THEOREM CleanupAlwaysSucceeds == TouchSpec => []CleanupSucceeds
  <1>1. TouchInv => CleanupSucceeds
    BY DEF TouchInv
  <1> QED
    BY <1>1, TouchCorrect, PTL

\* The frames explain every active pointer.
THEOREM FramesExplainPointers == TouchSpec => []FrameExplainsPointers
  <1>1. TouchInv => FrameExplainsPointers
    BY DEF TouchInv
  <1> QED
    BY <1>1, TouchCorrect, PTL
-----------------------------------------------------------------------------
(* Endings reach the game, unless the frame is discarded.                  *)

\* An ending is the last word about a pointer in the frame F.
Reports(F, id) ==
    MentionsIn(F, id) # {} /\ F[LastOf(MentionsIn(F, id))].phase \in Ending

\* What EndsAreReported says of a pointer that is stranded.
EndingIsLost(id) ==
    /\ FrameDiscarded /\ id \notin ActiveIds
    /\ Mentions(id) # {} /\ frameEvents[LastOf(Mentions(id))].phase \in Ending

LostWithTheFrame == \A id \in Stranded' \ Stranded : EndingIsLost(id)

\* Where a game shown the frame believes a pointer to be, before and after.
LEMMA ReplayedIs ==
    ASSUME NEW id
    PROVE  /\ Replayed(id) = ReplayedIn(frameEvents, consumer, id)
           /\ Replayed(id)' = ReplayedIn(frameEvents', consumer', id)
  BY DEF Replayed, ReplayedIn, Mentions, MentionsIn

\* A cancellation is in the frame for each pointer.
LEMMA CancelReports ==
    ASSUME TouchTypeOK, SurfaceIsNewest, NEW ts \in 0..MaxTime, NEW events \in Seq(PointerEvents),
           CancelPointers(ts, events)
    PROVE  \A i \in Slots : \E j \in 1..Len(frameEvents') :
              /\ frameEvents'[j].id = activePointers[i].id /\ frameEvents'[j].phase = "Cancel"
              /\ \A k \in 1..Len(frameEvents') : k >= j => frameEvents'[k].phase = "Cancel"
  <1> DEFINE c == Cancellations(ts)
             n == Len(events)
             m == Len(activePointers)
  <1> SUFFICES ASSUME NEW i \in Slots
               PROVE  \E j \in 1..Len(frameEvents') :
                        /\ frameEvents'[j].id = activePointers[i].id /\ frameEvents'[j].phase = "Cancel"
                        /\ \A k \in 1..Len(frameEvents') : k >= j => frameEvents'[k].phase = "Cancel"
    OBVIOUS
  <1>1. activePointers # <<>> /\ m \in Nat /\ n \in Nat /\ i \in 1..m
    <2>1. activePointers \in Seq(PointerType) /\ Len(activePointers) \in 0..MaxPointers
      BY TouchTypes
    <2>2. m \in Nat /\ n \in Nat
      BY <2>1, LenProperties
    <2>3. activePointers # <<>>
      BY EmptySeq DEF Slots
    <2> QED
      BY <2>2, <2>3 DEF Slots
  <1>2. /\ c \in Seq(PointerEvents) /\ Len(c) = m
        /\ \A k \in 1..m : c[k].id = activePointers[k].id /\ c[k].phase = "Cancel"
    BY <1>1, CancellationsType DEF Slots
  <1>3. frameEvents' = events \o c
    BY DEF CancelPointers
  <1> HIDE DEF c, n, m
  <1>4. /\ Len(frameEvents') = n + m
        /\ \A k \in 1..(n + m) : frameEvents'[k] = IF k <= n THEN events[k] ELSE c[k - n]
    BY <1>2, <1>3, ConcatProperties DEF n
  <1>5. \A k \in 1..(n + m) : k >= n + 1 => k - n \in 1..m /\ frameEvents'[k] = c[k - n]
    BY <1>1, <1>4
  <1>6. n + i \in 1..Len(frameEvents') /\ n + i - n = i /\ n + i >= n + 1
    BY <1>1, <1>4
  <1>7. frameEvents'[n + i] = c[i]
    <2>1. n + i \in 1..(n + m) /\ ~(n + i <= n)
      BY <1>1
    <2>2. frameEvents'[n + i] = c[n + i - n]
      BY <1>1, <1>4, <2>1
    <2> QED
      BY <1>6, <2>2
  <1>8. \A k \in 1..Len(frameEvents') : k >= n + i => frameEvents'[k].phase = "Cancel"
    <2>1. \A k \in 1..(n + m) : k >= n + i => k >= n + 1
      BY <1>1
    <2> QED
      BY <1>2, <1>4, <1>5, <2>1
  <1> QED
    BY <1>1, <1>2, <1>6, <1>7, <1>8

\* What is cancelled has ended for a game shown the frame.
LEMMA CancelEnds ==
    ASSUME TouchTypeOK, SurfaceIsNewest, NEW ts \in 0..MaxTime, NEW events \in Seq(PointerEvents),
           CancelPointers(ts, events)
    PROVE  \A id \in ActiveIds : Reports(frameEvents', id) /\ Replayed(id)' = Unknown
  <1>1. ASSUME NEW i \in Slots PROVE Reports(frameEvents', activePointers[i].id)
    <2> DEFINE M == MentionsIn(frameEvents', activePointers[i].id)
    <2>1. PICK j \in 1..Len(frameEvents') :
             /\ frameEvents'[j].id = activePointers[i].id
             /\ \A k \in 1..Len(frameEvents') : k >= j => frameEvents'[k].phase = "Cancel"
      BY CancelReports
    <2>2. j \in M
      BY <2>1 DEF MentionsIn
    <2>3. Len(frameEvents') \in Nat
      BY <2>1
    <2>4. M \in SUBSET (1..Len(frameEvents'))
      BY DEF MentionsIn
    <2> HIDE DEF M
    <2>5. LastOf(M) \in M /\ j <= LastOf(M)
      BY <2>2, <2>3, <2>4, LastExists
    <2>6. LastOf(M) >= j
      BY <2>4, <2>5
    <2> QED
      BY <2>1, <2>2, <2>4, <2>5, <2>6 DEF M, Reports, Ending
  <1>2. \A id \in ActiveIds : Reports(frameEvents', id)
    BY <1>1 DEF ActiveIds
  <1> QED
    BY <1>2, ReplayedIs DEF Reports, ReplayedIn

\* Of other pointers the cancellations say nothing.
LEMMA CancelSparesOthers ==
    ASSUME TouchTypeOK, SurfaceIsNewest, NEW ts \in 0..MaxTime, NEW events \in Seq(PointerEvents),
           CancelPointers(ts, events), NEW id, id \notin ActiveIds, NEW C
    PROVE  ReplayedIn(frameEvents', C, id) = ReplayedIn(events, C, id)
  <1> DEFINE c == Cancellations(ts)
             n == Len(events)
             m == Len(activePointers)
  <1>1. frameEvents' = events \o c /\ n \in Nat
    BY LenProperties DEF CancelPointers
  <1>2. CASE activePointers = <<>>
    <2>1. c = <<>>
      BY <1>2 DEF Cancellations, Slots
    <2>2. frameEvents' = events
      BY <1>1, <2>1, ConcatEmptySeq
    <2> QED
      BY <2>2
  <1>3. CASE activePointers # <<>>
    <2>1. /\ c \in Seq(PointerEvents) /\ Len(c) = m /\ m \in Nat
          /\ \A k \in 1..m : c[k].id # id
      <3>1. /\ c \in Seq(PointerEvents) /\ Len(c) = m
            /\ \A k \in 1..m : c[k].id = activePointers[k].id
        BY <1>3, CancellationsType DEF Slots
      <3>2. \A k \in 1..m : activePointers[k].id # id
        BY DEF ActiveIds, Slots
      <3> QED
        BY <3>1, <3>2, LenProperties
    <2> HIDE DEF c, n, m
    <2>2. /\ Len(frameEvents') = n + m
          /\ \A k \in 1..(n + m) : frameEvents'[k] = IF k <= n THEN events[k] ELSE c[k - n]
      BY <1>1, <2>1, ConcatProperties DEF n
    <2>3. \A k \in 1..(n + m) : \/ k \in 1..n /\ frameEvents'[k] = events[k]
                                \/ k \notin 1..n /\ frameEvents'[k].id # id
      <3>1. \A k \in 1..(n + m) : k <= n \/ k - n \in 1..m
        BY <1>1, <2>1
      <3> QED
        BY <1>1, <2>1, <2>2, <3>1
    <2>4. MentionsIn(frameEvents', id) = MentionsIn(events, id)
      <3>0. \A k \in 1..n : k \in 1..(n + m)
        BY <1>1, <2>1
      <3>1. \A k \in 1..n : k \in 1..(n + m) /\ frameEvents'[k] = events[k]
        BY <2>3, <3>0
      <3> QED
        BY <2>2, <2>3, <3>1 DEF MentionsIn, n
    <2>5. MentionsIn(events, id) # {} =>
             frameEvents'[LastOf(MentionsIn(events, id))] = events[LastOf(MentionsIn(events, id))]
      <3>1. MentionsIn(events, id) \in SUBSET (1..n)
        BY DEF MentionsIn, n
      <3>2. \A k \in 1..n : frameEvents'[k] = events[k]
        BY <1>1, <2>1, <2>2
      <3> QED
        BY <1>1, <3>1, <3>2, LastExists
    <2> QED
      BY <2>4, <2>5 DEF ReplayedIn
  <1> QED
    BY <1>2, <1>3

\* A pointer the frame ends, where the game knew of it.
LEMMA EndedInFrame ==
    ASSUME FrameIsFinite, TouchTypeOK, NEW id \in PointerIds,
           Replayed(id) = Unknown, consumer[id] # Unknown
    PROVE  Mentions(id) # {} /\ frameEvents[LastOf(Mentions(id))].phase \in Ending
  <1>1. Mentions(id) # {}
    BY DEF Replayed
  <1>2. LastOf(Mentions(id)) \in 1..Len(frameEvents)
    <2>1. Len(frameEvents) \in Nat /\ Mentions(id) \in SUBSET (1..Len(frameEvents))
      <3>1. frameEvents \in Seq(PointerEvents)
        BY DEF TouchTypeOK
      <3> QED
        BY <3>1, LenProperties DEF Mentions
    <2> QED
      BY <1>1, <2>1, LastExists
  <1>3. frameEvents[LastOf(Mentions(id))].x # Unknown
    BY <1>2, UnknownAssumption DEF FrameIsFinite
  <1> QED
    BY <1>1, <1>3 DEF Replayed

\* Cancelling strands nobody where the frame is kept, and where it is not only
\* those whose ending it held.
LEMMA CancelStrands ==
    ASSUME TouchInv, NEW ts \in 0..MaxTime, NEW events \in {frameEvents, <<>>},
           CancelPointers(ts, events), events = frameEvents \/ FrameDiscarded,
           consumer' = consumer
    PROVE  LostWithTheFrame
  <1>1. TouchTypeOK /\ SurfaceIsNewest /\ FrameIsFinite /\ events \in Seq(PointerEvents)
    BY TouchTypes, EmptySeq DEF TouchInv, TouchInvariant
  <1> SUFFICES ASSUME NEW id \in PointerIds, id \notin ActiveIds', Replayed(id)' # Unknown,
                      id \in ActiveIds \/ Replayed(id) = Unknown
               PROVE  EndingIsLost(id)
    BY DEF LostWithTheFrame, Stranded
  <1>2. id \notin ActiveIds /\ Replayed(id) = Unknown
    BY <1>1, CancelEnds
  <1>3. Replayed(id)' = ReplayedIn(events, consumer, id)
    BY <1>1, <1>2, CancelSparesOthers, ReplayedIs
  <1>4. events # frameEvents
    BY <1>2, <1>3, ReplayedIs
  <1>5. consumer[id] # Unknown
    BY <1>3, <1>4, EmptyFrame
  <1>6. Mentions(id) # {} /\ frameEvents[LastOf(Mentions(id))].phase \in Ending
    BY <1>1, <1>2, <1>5, EndedInFrame
  <1> QED
    BY <1>2, <1>4, <1>6 DEF EndingIsLost

\* A shell cancellation, of the frame there is or of an emptied one.
LEMMA ShellCancelStrands ==
    ASSUME TouchInv, NEW ts \in 0..MaxTime, CancelWithRetry(ts), consumer' = consumer
    PROVE  LostWithTheFrame
  <1>1. CASE CanCancel(ts, frameEvents)
    <2>1. CancelPointers(ts, frameEvents)
      BY <1>1 DEF CancelWithRetry
    <2> QED
      BY <2>1, CancelStrands
  <1>2. CASE ~CanCancel(ts, frameEvents)
    <2>1. CancelPointers(ts, <<>>) /\ FrameDiscarded
      BY <1>2 DEF CancelWithRetry, FrameDiscarded, RoomIsMade
    <2> QED
      BY <2>1, CancelStrands
  <1> QED
    BY <1>1, <1>2

\* An event that is processed ends its own pointer, if it is an Up or a
\* Cancel, and says so.
LEMMA ProcessStrands ==
    ASSUME TouchInv, NEW e \in PointerEvents, Process(e)
    PROVE  LostWithTheFrame
  <1>1. /\ activePointers' = PointersAfter(e) /\ frameEvents' = Append(frameEvents, e)
        /\ consumer' = consumer
        /\ Accepts(e) /\ TouchTypeOK /\ OnePerPointer /\ frameEvents \in Seq(PointerEvents)
    BY TouchTypes DEF Process, TouchInv, TouchInvariant
  <1>2. \A id \in ActiveIds : (id = e.id /\ e.phase \in Ending) \/ id \in ActiveIds'
    <2>1. \A k \in Slots : (activePointers[k].id = e.id /\ e.phase \in Ending)
                         \/ \E i \in 1..Len(activePointers') : activePointers'[i].id = activePointers[k].id
      BY <1>1, ProcessedPointers
    <2> QED
      BY <2>1 DEF ActiveIds, Slots
  <1>3. e.phase \notin Ending => e.id \in ActiveIds'
    <2>1. CASE e.id \in ActiveIds
      BY <1>2, <2>1
    <2>2. CASE e.phase = "Down"
      <3>1. activePointers \in Seq(PointerType) /\ e.id \in PointerIds /\ e.x \in Positions /\ e.ts \in 0..MaxTime
        BY <1>1, TouchTypes, EventTypes DEF Accepts
      <3> DEFINE new == [id |-> e.id, x |-> e.x, delta |-> 0, ts |-> e.ts]
      <3>2. activePointers' = Append(activePointers, new)
        BY <1>1, <2>2 DEF PointersAfter, Ending
      <3>3. new \in PointerType /\ new.id = e.id
        BY <3>1 DEF PointerType
      <3> HIDE DEF new
      <3>4. Len(activePointers') \in 1..Len(activePointers') /\ activePointers'[Len(activePointers')] = new
        <4>1. Len(activePointers) \in Nat
          BY <3>1, LenProperties
        <4>2. Len(activePointers') = Len(activePointers) + 1 /\ activePointers'[Len(activePointers) + 1] = new
          BY <3>1, <3>2, <3>3, AppendProperties
        <4> QED
          BY <4>1, <4>2
      <3> QED
        BY <3>3, <3>4 DEF ActiveIds, Slots
    <2> QED
      BY <1>1, <2>1, <2>2 DEF Accepts
  <1>4. /\ \A id : id # e.id => Replayed(id)' = Replayed(id)
        /\ e.phase \in Ending => Replayed(e.id)' = Unknown
    <2>1. /\ \A id : id # e.id =>
                ReplayedIn(frameEvents', consumer', id) = ReplayedIn(frameEvents, consumer, id)
          /\ e.phase \in Ending => ReplayedIn(frameEvents', consumer', e.id) = Unknown
      BY <1>1, AppendToFrame
    <2> QED
      BY <2>1, ReplayedIs
  <1> QED
    BY <1>2, <1>3, <1>4 DEF LostWithTheFrame, Stranded

\* Where neither the pointers nor what the frame says of them change.
LEMMA SameBelief ==
    ASSUME ActiveIds' = ActiveIds, \A id \in PointerIds : Replayed(id)' = Replayed(id)
    PROVE  LostWithTheFrame
  BY DEF LostWithTheFrame, Stranded

\* Only a discarded frame strands a pointer, one whose ending it held; every
\* other ending is there for the game that is shown the frame.
THEOREM EndsAreAlwaysReported == TouchSpec => EndsAreReported
  <1>1. TouchInv /\ [TouchNext]_touchVars
        => [\A id \in Stranded' \ Stranded :
              /\ FrameDiscarded
              /\ id \notin ActiveIds
              /\ Mentions(id) # {} /\ frameEvents[LastOf(Mentions(id))].phase \in Ending]_touchVars
    <2> SUFFICES ASSUME TouchInv, TouchNext PROVE LostWithTheFrame
      BY DEF LostWithTheFrame, EndingIsLost
    <2>1. TouchTypeOK /\ lastEventTime \in 0..MaxTime
      BY TouchTypes DEF TouchInv, TouchInvariant
    <2>2. ASSUME NEW g \in 1..MaxSurface, AttachSurface(g) PROVE LostWithTheFrame
      BY <2>2, SameBelief DEF AttachSurface, ActiveIds, Slots, Replayed, Mentions
    <2>3. ASSUME NEW g \in 1..MaxSurface, NEW ts \in 0..MaxTime, DetachSurface(g, ts)
          PROVE  LostWithTheFrame
      BY <2>3, ShellCancelStrands DEF DetachSurface
    <2>4. ASSUME NEW ts \in 0..MaxTime, CancelTouchInput(ts) PROVE LostWithTheFrame
      BY <2>4, ShellCancelStrands DEF CancelTouchInput
    <2>5. ASSUME NEW e \in PointerEvents, Process(e) PROVE LostWithTheFrame
      BY <2>5, ProcessStrands
    <2>6. CASE BatchRejected
      <3>1. CancelPointers(lastEventTime, <<>>) /\ FrameDiscarded /\ consumer' = consumer
        BY <2>6, RejectedStep DEF FrameDiscarded, BatchRejected
      <3> QED
        BY <2>1, <3>1, CancelStrands
    <2>7. CASE BatchEnds
      BY <2>7, SameBelief DEF BatchEnds, inputVars, ActiveIds, Slots, Replayed, Mentions
    <2>8. CASE ProcessInputFrame
      <3>1. Slots' = Slots /\ \A i \in Slots : activePointers'[i].id = activePointers[i].id
        BY <2>1, <2>8, BeginFrameKeepsPointers DEF ProcessInputFrame
      <3>2. ActiveIds' = ActiveIds
        BY <3>1 DEF ActiveIds
      <3>3. frameEvents' = <<>> /\ consumer' = [id \in PointerIds |-> Replayed(id)]
        BY <2>8 DEF ProcessInputFrame, BeginFrame
      <3>4. \A id \in PointerIds : Replayed(id)' = Replayed(id)
        BY <3>3, ReplayedIs, EmptyFrame
      <3> QED
        BY <3>2, <3>4, SameBelief
    <2> QED
      BY <2>2, <2>3, <2>4, <2>5, <2>6, <2>7, <2>8 DEF TouchNext
  <1> QED
    BY <1>1, TouchCorrect, PTL DEF TouchSpec, EndsAreReported
=============================================================================
