-------------------------- MODULE GestureRecognizer --------------------------
(***************************************************************************)
(* Recognition of gestures: GestureRecognizer                              *)
(* (engine/input/src/gesture_recognizer.cpp).                              *)
(*                                                                         *)
(* update is one step: it validates the whole batch, folds process_event   *)
(* over it, looks for long presses, and when anything fails forgets all it *)
(* knows and delivers nothing.  The handlers are functions on a working    *)
(* state [tracks, pinch, tap, out, ok]; `ok' turns FALSE where the code    *)
(* returns false, and what a failed working state holds no longer matters. *)
(*                                                                         *)
(* Coordinates lie on a line.  A gesture keeps its type, its pointers, its *)
(* time, whether it was cancelled and, for a pinch, the distance of its    *)
(* pointers in place of the quotient by the initial one: zero exactly when *)
(* the scale is.  Positions, deltas and velocities of gestures are left    *)
(* out, and so are results that overflow the floating-point range.         *)
(***************************************************************************)
EXTENDS PointerEvent, SequencesExt

CONSTANTS MaxTracks,            \* TouchInput::maximum_supported_pointers
          MaxGestures,          \* maximum_gesture_events_per_frame
          MovementThreshold, DoubleTapDistance, MinimumSwipeVelocity,
          MaximumTapDuration, DoubleTapInterval, LongPressDuration,
          None                  \* a free slot, no pinch, no last tap

TrackType == [id : PointerIds, start : Positions, x : Positions, down : 0..MaxTime,
              dragging : BOOLEAN, longPressed : BOOLEAN, pinched : BOOLEAN]

TapType == [x : Positions, ts : 0..MaxTime]

ASSUME NoneAssumption ==
    None \notin TrackType \cup TapType \cup (PointerIds \X PointerIds) \cup (0..MaxSurface)

\* GestureRecognizer::create
ASSUME RecognizerAssumption ==
    /\ MaxTracks \in Nat \ {0}
    /\ \A n \in {MaxGestures, MovementThreshold, DoubleTapDistance, MinimumSwipeVelocity,
                 MaximumTapDuration, DoubleTapInterval, LongPressDuration} : n \in Nat \ {0}

VARIABLES tracks,               \* pointers_
          pinch,                \* the identities in pinch_, in slot order
          lastTap,              \* last_tap_{x,timestamp_ns}_
          seenSurface,          \* surface_generation_; None before the first update
          lastFrame,            \* last_frame_timestamp_ns_, 0 when there is none
          lastEvent,            \* last_event_timestamp_ns_, 0 when there is none
          gestures,             \* output_
          heard                 \* history: what a consumer of the output believes

recognizerVars == <<tracks, pinch, lastTap, seenSurface, lastFrame, lastEvent, gestures>>
gestureVars == <<recognizerVars, heard>>

TrackSlots == 1..MaxTracks
NoTracks == [i \in TrackSlots |-> None]

Distance(a, b) == IF a < b THEN b - a ELSE a - b

Gesture(type, ids, ts) ==
    [type |-> type, ids |-> ids, ts |-> ts, cancelled |-> FALSE, distance |-> 1]

When(condition, gesture) == IF condition THEN <<gesture>> ELSE <<>>

Emit(s, events) ==
    IF Len(s.out) + Len(events) <= MaxGestures
    THEN [s EXCEPT !.out = @ \o events]
    ELSE [s EXCEPT !.ok = FALSE]

Fails(s) == [s EXCEPT !.ok = FALSE]

Holds(s, id) == {i \in TrackSlots : s.tracks[i] # None /\ s.tracks[i].id = id}
Tracked(s, id) == Holds(s, id) # {}
SlotOf(s, id) == Min(Holds(s, id))
FreeSlots(s) == {i \in TrackSlots : s.tracks[i] = None}
-----------------------------------------------------------------------------
(* The two-pointer gesture.                                                *)

BothTracked(s) == \A k \in 1..2 : Tracked(s, s.pinch[k])

Spread(s) == Distance(s.tracks[SlotOf(s, s.pinch[1])].x, s.tracks[SlotOf(s, s.pinch[2])].x)

\* The first two pointers that take part in no pinch yet, unless they are in
\* one place.  A drag ends before it is absorbed.
BeginPinchIfPossible(s, ts) ==
    LET single == {i \in TrackSlots : s.tracks[i] # None /\ ~s.tracks[i].pinched}
        a      == Min(single)
        b      == Min(single \ {a})
        ids    == <<s.tracks[a].id, s.tracks[b].id>>
        DragEnds(i) == When(s.tracks[i].dragging, Gesture("DragEnd", <<s.tracks[i].id>>, ts)) IN
    IF s.pinch # None \/ single = {} \/ single = {a} THEN s
    ELSE IF s.tracks[a].x = s.tracks[b].x THEN s
    ELSE Emit([s EXCEPT !.pinch = ids,
                        !.tracks = [i \in TrackSlots |->
                          IF i \in {a, b} THEN [@[i] EXCEPT !.pinched = TRUE, !.dragging = FALSE]
                          ELSE @[i]]],
              DragEnds(a) \o DragEnds(b)
                \o <<Gesture("PanBegin", ids, ts), Gesture("PinchBegin", ids, ts)>>)

\* Seeded fault: the pan of the two pointers is not ended.
BrokenEndPinch(s, ts, cancelled) ==
    IF s.pinch = None THEN s
    ELSE Emit([s EXCEPT !.pinch = None],
              <<[Gesture("PinchEnd", s.pinch, ts) EXCEPT !.cancelled = cancelled]>>)

EndPinch(s, ts, cancelled) ==
    LET End(type) == [Gesture(type, s.pinch, ts) EXCEPT !.cancelled = cancelled] IN
    IF s.pinch = None THEN s
    ELSE Emit([s EXCEPT !.pinch = None],
              <<[End("PinchEnd") EXCEPT !.distance = IF BothTracked(s) THEN Spread(s) ELSE 1],
                End("PanEnd")>>)

UpdatePinch(s, ts) ==
    IF s.pinch = None THEN s
    ELSE IF ~BothTracked(s) THEN EndPinch(s, ts, TRUE)
    ELSE Emit(s, <<Gesture("PanUpdate", s.pinch, ts),
                   [Gesture("PinchUpdate", s.pinch, ts) EXCEPT !.distance = Spread(s)]>>)

\* Seeded fault: only the first pointer of the pinch is looked at.
BrokenInPinch(s, id) == s.pinch # None /\ s.pinch[1] = id

InPinch(s, id) == s.pinch # None /\ \E k \in 1..2 : s.pinch[k] = id
-----------------------------------------------------------------------------
(* process_event                                                           *)

ProcessDown(s, e) ==
    IF Tracked(s, e.id) \/ FreeSlots(s) = {} THEN Fails(s)
    ELSE BeginPinchIfPossible(
           [s EXCEPT !.tracks[Min(FreeSlots(s))] =
              [id |-> e.id, start |-> e.x, x |-> e.x, down |-> e.ts,
               dragging |-> FALSE, longPressed |-> FALSE, pinched |-> FALSE]], e.ts)

ProcessMove(s, e) ==
    LET i      == SlotOf(s, e.id)
        t      == s.tracks[i]
        begins == /\ ~t.pinched /\ ~t.dragging /\ ~t.longPressed
                  /\ Distance(t.start, e.x) > MovementThreshold
        drags  == ~t.pinched /\ (t.dragging \/ begins)
        moved  == Emit([s EXCEPT !.tracks[i] = [@ EXCEPT !.x = e.x, !.dragging = t.dragging \/ begins]],
                       When(begins, Gesture("DragBegin", <<e.id>>, e.ts))
                         \o When(drags, Gesture("DragUpdate", <<e.id>>, e.ts))) IN
    IF ~Tracked(s, e.id) THEN Fails(s)
    ELSE IF s.pinch # None THEN UpdatePinch(moved, e.ts)
    ELSE BeginPinchIfPossible(moved, e.ts)

\* The second of two close taps makes a double tap, a third starts over.
CompletesDoubleTap(s, e) ==
    /\ s.tap # None
    /\ e.ts - s.tap.ts <= DoubleTapInterval
    /\ Distance(s.tap.x, e.x) <= DoubleTapDistance

ProcessUp(s, e) ==
    LET i         == SlotOf(s, e.id)
        t         == s.tracks[i]
        moved     == [s EXCEPT !.tracks[i].x = e.x]
        parted    == IF InPinch(s, e.id)
                     THEN EndPinch(UpdatePinch(moved, e.ts), e.ts, FALSE)
                     ELSE moved
        released  == [parted EXCEPT !.tracks[i] = None]
        duration  == e.ts - t.down
        travelled == Distance(t.start, e.x)
        presses   == /\ ~t.dragging /\ ~t.longPressed
                     /\ travelled <= MovementThreshold /\ duration >= LongPressDuration
        drags     == t.dragging \/ travelled > MovementThreshold
        swipes    == drags /\ duration > 0 /\ travelled >= MinimumSwipeVelocity * duration
        taps      == /\ ~drags /\ ~t.longPressed /\ ~presses
                     /\ duration <= MaximumTapDuration
        doubles   == taps /\ CompletesDoubleTap(s, e)
        G(type)   == Gesture(type, <<e.id>>, e.ts) IN
    IF ~Tracked(s, e.id) THEN Fails(s)
    ELSE IF t.pinched THEN released
    ELSE Emit([released EXCEPT !.tap = IF doubles THEN None
                                       ELSE IF taps THEN [x |-> e.x, ts |-> e.ts] ELSE @],
              When(presses, G("LongPress"))
                \o When(drags /\ ~t.dragging, G("DragBegin")) \o When(drags, G("DragEnd"))
                \o When(swipes, G("Swipe")) \o When(taps, G("Tap")) \o When(doubles, G("DoubleTap")))

Cancelled(gesture) == [gesture EXCEPT !.cancelled = TRUE]

\* Seeded fault: the last tap survives a cancellation.
BrokenProcessCancel(s, e) ==
    LET i      == SlotOf(s, e.id)
        moved  == [s EXCEPT !.tracks[i].x = e.x]
        parted == IF InPinch(s, e.id) THEN EndPinch(moved, e.ts, TRUE) ELSE moved IN
    IF ~Tracked(s, e.id) THEN Fails(s)
    ELSE Emit([parted EXCEPT !.tracks[i] = None],
              When(s.tracks[i].dragging, Cancelled(Gesture("DragEnd", <<e.id>>, e.ts)))
                \o <<Cancelled(Gesture("Cancelled", <<e.id>>, e.ts))>>)

ProcessCancel(s, e) ==
    LET i      == SlotOf(s, e.id)
        moved  == [s EXCEPT !.tracks[i].x = e.x]
        parted == IF InPinch(s, e.id) THEN EndPinch(moved, e.ts, TRUE) ELSE moved IN
    IF ~Tracked(s, e.id) THEN Fails(s)
    ELSE Emit([parted EXCEPT !.tracks[i] = None, !.tap = None],
              When(s.tracks[i].dragging, Cancelled(Gesture("DragEnd", <<e.id>>, e.ts)))
                \o <<Cancelled(Gesture("Cancelled", <<e.id>>, e.ts))>>)

ProcessEvent(s, e) ==
    CASE e.phase = "Down"   -> ProcessDown(s, e)
      [] e.phase = "Move"   -> ProcessMove(s, e)
      [] e.phase = "Up"     -> ProcessUp(s, e)
      [] e.phase = "Cancel" -> ProcessCancel(s, e)
-----------------------------------------------------------------------------
(* update                                                                  *)

\* The events of a batch, in their order, until one fails.
Processed(s, events) ==
    LET after[n \in 0..Len(events)] ==
          IF n = 0 THEN s
          ELSE IF after[n - 1].ok THEN ProcessEvent(after[n - 1], events[n]) ELSE after[n - 1]
    IN after[Len(events)]

\* One gesture for each slot of a set, in the order of the slots.
ForSlots(s, slots, gesture) ==
    LET upTo[n \in 0..MaxTracks] ==
          IF n = 0 THEN <<>>
          ELSE upTo[n - 1] \o When(n \in slots, [gesture EXCEPT !.ids = <<s.tracks[n].id>>])
    IN upTo[MaxTracks]

RecognizeLongPresses(s, ts) ==
    LET pressed == {i \in TrackSlots :
                      LET t == s.tracks[i] IN
                      /\ t # None
                      /\ ~t.dragging /\ ~t.longPressed /\ ~t.pinched
                      /\ ts - t.down >= LongPressDuration
                      /\ Distance(t.start, t.x) <= MovementThreshold} IN
    Emit([s EXCEPT !.tracks = [i \in TrackSlots |->
                                 IF i \in pressed THEN [@[i] EXCEPT !.longPressed = TRUE] ELSE @[i]]],
         ForSlots(s, pressed, Gesture("LongPress", <<>>, ts)))

\* A pinch ends cancelled; every pointer is cancelled, whatever it was doing.
CancelTrackedPointers(s, ts) ==
    Emit([EndPinch(s, ts, TRUE) EXCEPT !.tracks = NoTracks],
         ForSlots(s, TrackSlots \ FreeSlots(s), Cancelled(Gesture("Cancelled", <<>>, ts))))

ValidBatch(events, ts, generation) ==
    /\ events # <<>> => generation # 0
    /\ \A i \in DOMAIN events :
          /\ events[i].x # NonFinite
          /\ events[i].generation = generation
          /\ events[i].ts >= (IF i = 1 THEN lastEvent ELSE events[i - 1].ts)
          /\ events[i].ts <= ts

\* The working state after everything update does to it.
Updated(events, ts, generation) ==
    LET before   == [tracks |-> tracks, pinch |-> pinch, tap |-> lastTap, out |-> <<>>, ok |-> TRUE]
        surfaced == IF seenSurface = generation THEN before
                    ELSE [CancelTrackedPointers(before, ts) EXCEPT !.tap = None] IN
    IF ts < lastFrame \/ ~ValidBatch(events, ts, generation) THEN Fails(before)
    ELSE RecognizeLongPresses(Processed(surfaced, events), ts)
-----------------------------------------------------------------------------
(* What a consumer of the gestures believes: which drags, pans and pinches *)
(* have begun and not ended, and how many taps may still make a double     *)
(* tap.  Cancelled(id) ends what the pointer was doing alone.  An error    *)
(* tells the consumer to start over.                                       *)

Silence == [open |-> {}, taps |-> 0, orderly |-> TRUE]

Family(type) == CASE type \in {"DragBegin", "DragUpdate", "DragEnd"}    -> "Drag"
                  [] type \in {"PanBegin", "PanUpdate", "PanEnd"}       -> "Pan"
                  [] type \in {"PinchBegin", "PinchUpdate", "PinchEnd"} -> "Pinch"
                  [] OTHER                                              -> type

Hear(h, g) ==
    LET what == <<Family(g.type), g.ids>> IN
    CASE g.type \in {"DragBegin", "PanBegin", "PinchBegin"} ->
            [h EXCEPT !.orderly = @ /\ what \notin h.open, !.open = @ \cup {what}]
      [] g.type \in {"DragUpdate", "PanUpdate", "PinchUpdate"} ->
            [h EXCEPT !.orderly = @ /\ what \in h.open]
      [] g.type \in {"DragEnd", "PanEnd", "PinchEnd"} ->
            [h EXCEPT !.orderly = @ /\ what \in h.open, !.open = @ \ {what}]
      [] g.type = "Cancelled" -> [h EXCEPT !.taps = 0, !.open = @ \ {<<"Drag", g.ids>>}]
      [] g.type = "Tap"       -> [h EXCEPT !.taps = IF @ < 2 THEN @ + 1 ELSE 2]
      [] g.type = "DoubleTap" -> [h EXCEPT !.orderly = @ /\ h.taps = 2, !.taps = 0]
      [] OTHER                -> h

Heard(h, told) ==
    LET after[n \in 0..Len(told)] == IF n = 0 THEN h ELSE Hear(after[n - 1], told[n])
    IN after[Len(told)]
-----------------------------------------------------------------------------
GestureInit ==
    /\ tracks = NoTracks /\ pinch = None /\ lastTap = None
    /\ seenSurface = None /\ lastFrame = 0 /\ lastEvent = 0
    /\ gestures = <<>> /\ heard = Silence

\* Seeded fault: the pointers survive a reset.
BrokenReset ==
    /\ UNCHANGED tracks /\ pinch' = None /\ lastTap' = None
    /\ seenSurface' = None /\ lastFrame' = 0 /\ lastEvent' = 0
    /\ gestures' = <<>> /\ heard' = Silence

Reset ==
    /\ tracks' = NoTracks /\ pinch' = None /\ lastTap' = None
    /\ seenSurface' = None /\ lastFrame' = 0 /\ lastEvent' = 0
    /\ gestures' = <<>> /\ heard' = Silence

Deliver(s, events, ts, generation) ==
    /\ tracks' = s.tracks /\ pinch' = s.pinch /\ lastTap' = s.tap
    /\ seenSurface' = generation /\ lastFrame' = ts
    /\ lastEvent' = IF events = <<>> THEN lastEvent ELSE events[Len(events)].ts
    /\ gestures' = s.out
    /\ heard' = Heard(heard, s.out)

RawEvents ==
    [id : PointerIds, phase : Phases, x : Positions \cup {NonFinite}, ts : Nat, generation : Nat]

Update(events, ts, generation) ==
    LET s == Updated(events, ts, generation) IN
    IF s.ok THEN Deliver(s, events, ts, generation) ELSE Reset

\* Any batch of a caller, valid or not.
GestureNext ==
    \E ts \in 0..MaxTime, generation \in 0..MaxSurface, events \in Seq(RawEvents) :
        Update(events, ts, generation)

GestureSpec == GestureInit /\ [][GestureNext]_gestureVars
-----------------------------------------------------------------------------
State == [tracks |-> tracks, pinch |-> pinch]

\* The tracks are of the pointers that are down, one each, and the output
\* stays within its capacity.
GestureTypeOK ==
    /\ tracks \in [TrackSlots -> TrackType \cup {None}]
    /\ \A i, j \in TrackSlots :
          tracks[i] # None /\ tracks[j] # None /\ tracks[i].id = tracks[j].id => i = j
    /\ pinch \in (PointerIds \X PointerIds) \cup {None}
    /\ lastTap \in TapType \cup {None}
    /\ seenSurface \in 0..MaxSurface \cup {None}
    /\ lastFrame \in 0..MaxTime /\ lastEvent \in 0..lastFrame
    /\ Len(gestures) <= MaxGestures

\* The two pointers of a pinch are two different pointers that are down and
\* belong to the pinch alone, so update_pinch never meets a lost pointer.
PinchHoldsItsPointers ==
    pinch # None =>
        /\ pinch[1] # pinch[2] /\ BothTracked(State)
        /\ \A k \in 1..2 : LET t == tracks[SlotOf(State, pinch[k])] IN t.pinched /\ ~t.dragging

\* Tracks, output and pinch together, after every frame, surface change and
\* reset (update, reset).
GestureInvariant == GestureTypeOK /\ PinchHoldsItsPointers

\* Drags, pans and pinches are told as begin, updates, end, in that order
\* and never twice, over any number of frames, surfaces and failures, and a
\* double tap always closes two taps that nothing cancelled and no earlier
\* double tap used up (emit in every handler, process_up).
GesturesAreOrderly == heard.orderly

\* What the consumer believes to be going on is what the recognizer is
\* doing: no gesture is left open when its pointers are gone.
NoGestureIsForgotten ==
    heard.open =
        {<<"Drag", <<tracks[i].id>>>> : i \in {j \in TrackSlots : tracks[j] # None /\ tracks[j].dragging}}
        \cup (IF pinch = None THEN {} ELSE {<<"Pan", pinch>>, <<"Pinch", pinch>>})
=============================================================================
