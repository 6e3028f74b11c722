------------------------ MODULE TouchPipelineProofs ------------------------
(***************************************************************************)
(* Proofs about GestureRecognizer, with whatever input, and about the      *)
(* pipeline that TouchPipeline puts it in.                                 *)
(*                                                                         *)
(* 1.  A consumer that listens to gestures one after the other, as a loop; *)
(* 2.  the handlers of the recognizer on a working state: each leaves one  *)
(*     that agrees with what the consumer then has heard, `Sound';         *)
(* 3.  a frame, so that the agreement holds at every frame's end, from     *)
(*     which the three properties of GestureRecognizer follow;             *)
(* 4.  the tracks: they follow the events of the frame, one by one;        *)
(* 5.  the pipeline: it implements TouchInput and GestureRecognizer, and   *)
(*     has invariants of its own.                                          *)
(***************************************************************************)
EXTENDS TouchPipeline, HostPartsProofs
-----------------------------------------------------------------------------
(* The consumer.                                                           *)

\* The pointers of a gesture: one, two, or none.
Groups == {<<>>} \cup {<<p>> : p \in PointerIds} \cup (PointerIds \X PointerIds)

\* A gesture told by time T.
Telling(T) == [type : GestureTypes, ids : Groups, ts : 0..T, cancelled : BOOLEAN, distance : Nat]

\* What a consumer may believe to have begun.
Opens == {"Drag", "Pan", "Pinch"} \X Groups

\* What a consumer remembers.
HearType == [open : SUBSET Opens, taps : 0..2, orderly : BOOLEAN]

\* A working state of update at time T.
Work(T) == [tracks : [TrackSlots -> TrackType \cup {None}],
            pinch : (PointerIds \X PointerIds) \cup {None}, tap : TapType \cup {None},
            out : Seq(Telling(T)), ok : BOOLEAN]

\* What a consumer remembers of a drag, a pan, a pinch.
Drag(id)   == <<"Drag", <<id>>>>
Pan(ids)   == <<"Pan", ids>>
Pinch(ids) == <<"Pinch", ids>>

\* A drag, a pan and a pinch are told apart, and so are those of other pointers.
LEMMA OpensDiffer ==
    ASSUME NEW a, NEW b, NEW p, NEW q
    PROVE  /\ (Drag(a) = Drag(b)) <=> (a = b)
           /\ (Pan(p) = Pan(q)) <=> (p = q)
           /\ (Pinch(p) = Pinch(q)) <=> (p = q)
           /\ Drag(a) # Pan(p) /\ Drag(a) # Pinch(p) /\ Pan(p) # Pinch(q)
  BY DEF Drag, Pan, Pinch

\* The groups of the gestures that begin and end.
LEMMA OpensTyped ==
    /\ \A a \in PointerIds : Drag(a) \in Opens /\ <<a>> \in Groups
    /\ \A p \in PointerIds \X PointerIds : Pan(p) \in Opens /\ Pinch(p) \in Opens /\ p \in Groups
  BY DEF Drag, Pan, Pinch, Opens, Groups

\* What was changed in a memory leaves a memory.
LEMMA Remembered ==
    ASSUME NEW h \in HearType, NEW o \in SUBSET Opens, NEW t \in 0..2, NEW b \in BOOLEAN
    PROVE  /\ [h EXCEPT !.taps = t, !.open = o] \in HearType
           /\ [h EXCEPT !.orderly = b, !.taps = t] \in HearType
<1>1. [h EXCEPT !.taps = t, !.open = o] \in HearType
  BY DEF HearType
<1>2. [h EXCEPT !.orderly = b, !.taps = t] \in HearType
  BY DEF HearType
<1> QED
  BY <1>1, <1>2

\* There is something to remember.
LEMMA SomeHearing == \E r \in HearType : TRUE
<1>1. [open |-> {}, taps |-> 0, orderly |-> TRUE] \in HearType
  BY DEF HearType
<1> QED
  BY <1>1

\* A begun gesture is open, and is disorder if it was.
LEMMA HearBegin ==
    ASSUME NEW T \in Nat, NEW h \in HearType, NEW g \in Telling(T), NEW f \in {"Drag", "Pan", "Pinch"},
           <<f, g.type>> \in {<<"Drag", "DragBegin">>, <<"Pan", "PanBegin">>, <<"Pinch", "PinchBegin">>}
    PROVE  LET r == Hear(h, g) IN
           /\ r \in HearType /\ r.taps = h.taps
           /\ r.open = h.open \cup {<<f, g.ids>>}
           /\ r.orderly <=> h.orderly /\ <<f, g.ids>> \notin h.open
<1>1. <<f, g.ids>> \in Opens /\ Family(g.type) = f
  BY DEF Telling, Family, Opens
<1>2. Hear(h, g) = [h EXCEPT !.orderly = @ /\ <<f, g.ids>> \notin h.open, !.open = @ \cup {<<f, g.ids>>}]
  BY <1>1 DEF Hear
<1>3. h.open \cup {<<f, g.ids>>} \in SUBSET Opens
  BY <1>1 DEF HearType
<1>4. Hear(h, g).open = h.open \cup {<<f, g.ids>>} /\ Hear(h, g).taps = h.taps
  BY <1>2 DEF HearType
<1>5. Hear(h, g).orderly <=> h.orderly /\ <<f, g.ids>> \notin h.open
  BY <1>2 DEF HearType
<1>6. Hear(h, g) \in HearType
  BY <1>2, <1>3 DEF HearType
<1> QED
  BY <1>4, <1>5, <1>6

\* An update changes nothing, and is disorder if its gesture is not open.
LEMMA HearUpdate ==
    ASSUME NEW T \in Nat, NEW h \in HearType, NEW g \in Telling(T), NEW f \in {"Drag", "Pan", "Pinch"},
           <<f, g.type>> \in {<<"Drag", "DragUpdate">>, <<"Pan", "PanUpdate">>, <<"Pinch", "PinchUpdate">>}
    PROVE  LET r == Hear(h, g) IN
           /\ r \in HearType /\ r.taps = h.taps
           /\ r.open = h.open
           /\ r.orderly <=> h.orderly /\ <<f, g.ids>> \in h.open
  BY DEF HearType, Telling, Hear, Family, Opens

\* An ended gesture is no longer open, and is disorder if it was not.
LEMMA HearEnd ==
    ASSUME NEW T \in Nat, NEW h \in HearType, NEW g \in Telling(T), NEW f \in {"Drag", "Pan", "Pinch"},
           <<f, g.type>> \in {<<"Drag", "DragEnd">>, <<"Pan", "PanEnd">>, <<"Pinch", "PinchEnd">>}
    PROVE  LET r == Hear(h, g) IN
           /\ r \in HearType /\ r.taps = h.taps
           /\ r.open = h.open \ {<<f, g.ids>>}
           /\ r.orderly <=> h.orderly /\ <<f, g.ids>> \in h.open
  BY DEF HearType, Telling, Hear, Family, Opens

\* Gestures that neither begin nor end are not remembered.
LEMMA HearPress ==
    ASSUME NEW h, NEW g, g.type \in {"LongPress", "Swipe"}
    PROVE  Hear(h, g) = h
  BY DEF Hear

\* A cancelled pointer ends its drag and the run of taps.
LEMMA HearCancelled ==
    ASSUME NEW h \in HearType, NEW g, g.type = "Cancelled"
    PROVE  LET r == Hear(h, g) IN
           /\ r \in HearType /\ r.taps = 0 /\ (r.orderly <=> h.orderly)
           /\ r.open = h.open \ {<<"Drag", g.ids>>}
<1>1. Hear(h, g) = [h EXCEPT !.taps = 0, !.open = @ \ {<<"Drag", g.ids>>}]
  BY DEF Hear
<1>2. h.open \ {<<"Drag", g.ids>>} \in SUBSET Opens
  BY DEF HearType
<1>3. Hear(h, g).open = h.open \ {<<"Drag", g.ids>>} /\ Hear(h, g).taps = 0
  BY <1>1 DEF HearType
<1>4. Hear(h, g).orderly <=> h.orderly
  BY <1>1 DEF HearType
<1>5. Hear(h, g) \in HearType
  <2> DEFINE rest == h.open \ {<<"Drag", g.ids>>}
  <2>1. rest \in SUBSET Opens /\ Hear(h, g) = [h EXCEPT !.taps = 0, !.open = rest]
    BY <1>1, <1>2
  <2> HIDE DEF rest
  <2>2. [h EXCEPT !.taps = 0, !.open = rest] \in HearType
    BY <2>1, 0 \in 0..2, Remembered
  <2> QED
    BY <2>1, <2>2
<1> QED
  BY <1>3, <1>4, <1>5

\* Taps are counted up to two.
LEMMA HearTap ==
    ASSUME NEW h \in HearType, NEW g, g.type = "Tap"
    PROVE  LET r == Hear(h, g) IN
           /\ r \in HearType /\ (r.orderly <=> h.orderly) /\ r.open = h.open
           /\ r.taps = IF h.taps < 2 THEN h.taps + 1 ELSE 2
<1>1. Hear(h, g) = [h EXCEPT !.taps = IF @ < 2 THEN @ + 1 ELSE 2]
  BY DEF Hear
<1> QED
  BY <1>1 DEF HearType

\* A double tap ends a run of two taps, and is disorder without them.
LEMMA HearDoubleTap ==
    ASSUME NEW h \in HearType, NEW g, g.type = "DoubleTap"
    PROVE  LET r == Hear(h, g) IN
           /\ r \in HearType /\ (r.orderly <=> h.orderly /\ h.taps = 2) /\ r.open = h.open
           /\ r.taps = 0
<1>1. Hear(h, g) = [h EXCEPT !.orderly = @ /\ h.taps = 2, !.taps = 0]
  BY DEF Hear
<1>2. Hear(h, g).open = h.open /\ Hear(h, g).taps = 0
  BY <1>1 DEF HearType
<1>3. Hear(h, g).orderly <=> h.orderly /\ h.taps = 2
  BY <1>1 DEF HearType
<1>4. Hear(h, g) \in HearType
  <2> DEFINE good == h.orderly /\ h.taps = 2
  <2>1. good \in BOOLEAN /\ Hear(h, g) = [h EXCEPT !.orderly = good, !.taps = 0]
    BY <1>1
  <2> HIDE DEF good
  <2>2. [h EXCEPT !.orderly = good, !.taps = 0] \in HearType
    BY <2>1, 0 \in 0..2, Remembered
  <2> QED
    BY <2>1, <2>2
<1> QED
  BY <1>2, <1>3, <1>4

\* Whatever is told, a memory stays a memory.
LEMMA HearTyped ==
    ASSUME NEW T \in Nat, NEW h \in HearType, NEW g \in Telling(T)
    PROVE  Hear(h, g) \in HearType
<1>1. g.type \in GestureTypes
  BY DEF Telling
<1>2. CASE g.type \in {"DragBegin", "PanBegin", "PinchBegin"}
  <2>1. \E f \in {"Drag", "Pan", "Pinch"} : <<f, g.type>> \in
           {<<"Drag", "DragBegin">>, <<"Pan", "PanBegin">>, <<"Pinch", "PinchBegin">>}
    BY <1>2
  <2> QED
    BY <2>1, HearBegin
<1>3. CASE g.type \in {"DragUpdate", "PanUpdate", "PinchUpdate"}
  <2>1. \E f \in {"Drag", "Pan", "Pinch"} : <<f, g.type>> \in
           {<<"Drag", "DragUpdate">>, <<"Pan", "PanUpdate">>, <<"Pinch", "PinchUpdate">>}
    BY <1>3
  <2> QED
    BY <2>1, HearUpdate
<1>4. CASE g.type \in {"DragEnd", "PanEnd", "PinchEnd"}
  <2>1. \E f \in {"Drag", "Pan", "Pinch"} : <<f, g.type>> \in
           {<<"Drag", "DragEnd">>, <<"Pan", "PanEnd">>, <<"Pinch", "PinchEnd">>}
    BY <1>4
  <2> QED
    BY <2>1, HearEnd
<1>5. CASE g.type \in {"LongPress", "Swipe", "Cancelled", "Tap", "DoubleTap"}
  BY <1>5, HearPress, HearCancelled, HearTap, HearDoubleTap
<1> QED
  BY <1>1, <1>2, <1>3, <1>4, <1>5 DEF GestureTypes, Beginnings, Endings

\* The loop of CommonLemmas over memories.
LEMMA HearRuns ==
    ASSUME NEW h \in HearType, NEW N \in Nat, NEW turn \in [1..N -> [HearType -> HearType]]
    PROVE  \E f \in [0..N -> HearType] : f[0] = h /\ \A n \in 1..N : f[n] = turn[n][f[n - 1]]
  BY LoopExists

\* Listening is a loop over what is told.
LEMMA HeardLoop ==
    ASSUME NEW T \in Nat, NEW h \in HearType, NEW told \in Seq(Telling(T))
    PROVE  \E f \in [0..Len(told) -> HearType] :
              /\ f[0] = h /\ \A n \in 1..Len(told) : f[n] = Hear(f[n - 1], told[n])
              /\ Heard(h, told) = f[Len(told)]
<1> DEFINE N == Len(told)
           S == HearType
           step == [n \in 1..N |-> [k \in S |-> Hear(k, told[n])]]
           Hears(g) == g = [n \in 0..N |-> IF n = 0 THEN h ELSE Hear(g[n - 1], told[n])]
           after == CHOOSE g : Hears(g)
<1>1. N \in Nat /\ \A n \in 1..N : told[n] \in Telling(T)
  BY LenProperties, ElementOfSeq
<1>a. N \in Nat
  BY <1>1
<1>h. h \in S
  OBVIOUS
<1>2. \A n \in 1..N, k \in HearType : Hear(k, told[n]) \in HearType
  BY <1>1, HearTyped
<1>3. step \in [1..N -> [S -> S]]
  BY <1>2
<1>4. \A n \in 1..N, k \in S : step[n][k] = Hear(k, told[n])
  OBVIOUS
<1>5. Heard(h, told) = after[N]
  BY DEF Heard
<1> HIDE DEF step, N, S
<1>6. PICK f \in [0..N -> S] : f[0] = h /\ \A n \in 1..N : f[n] = step[n][f[n - 1]]
  BY <1>a, <1>3, <1>h, HearRuns DEF S
<1>7. \A n \in 1..N : f[n] = Hear(f[n - 1], told[n])
  <2> SUFFICES ASSUME NEW n \in 1..N PROVE f[n] = Hear(f[n - 1], told[n])
    OBVIOUS
  <2>1. n - 1 \in 0..N
    BY <1>1
  <2> QED
    BY <2>1, <1>4, <1>6
<1>8. \A n \in 0..N : f[n] = IF n = 0 THEN h ELSE Hear(f[n - 1], told[n])
  BY <1>1, <1>6, <1>7
<1>9. f = [n \in 0..N |-> f[n]]
  BY <1>6
<1>10. f = [n \in 0..N |-> IF n = 0 THEN h ELSE Hear(f[n - 1], told[n])]
  BY <1>8, <1>9
<1>11. Hears(f)
  BY <1>10
<1> HIDE DEF after
<1>12. Hears(after)
  BY <1>11 DEF after
<1>13. \A n \in 0..N : after[n] = IF n = 0 THEN h ELSE Hear(after[n - 1], told[n])
  BY <1>12
<1> HIDE DEF Hears
<1> DEFINE Same == {n \in 0..N : after[n] = f[n]}
<1>14. 0 \in Same
  BY <1>1, <1>8, <1>13
<1>15. ASSUME NEW n \in 1..N, n - 1 \in Same PROVE n \in Same
  BY <1>1, <1>8, <1>13, <1>15
<1>16. N \in Same
  <2> HIDE DEF Same
  <2>1. Same \in SUBSET (0..N)
    BY DEF Same
  <2> QED
    BY <2>1, <1>1, <1>14, <1>15, IntervalInduction
<1> QED
  BY <1>1, <1>5, <1>6, <1>7, <1>16 DEF N, S

\* So does a memory after several gestures.
LEMMA HeardTyped ==
    ASSUME NEW T \in Nat, NEW h \in HearType, NEW told \in Seq(Telling(T))
    PROVE  Heard(h, told) \in HearType
<1>1. Len(told) \in Nat
  BY LenProperties
<1>2. Len(told) \in 0..Len(told)
  BY <1>1
<1> QED
  BY <1>2, HeardLoop

\* No gesture, nothing heard.
LEMMA HeardEmpty ==
    ASSUME NEW T \in Nat, NEW h \in HearType, NEW told \in Seq(Telling(T))
    PROVE  Len(told) = 0 => Heard(h, told) = h
<1>1. PICK f \in [0..Len(told) -> HearType] : f[0] = h /\ Heard(h, told) = f[Len(told)]
  BY HeardLoop
<1> QED
  BY <1>1

\* The same of the empty sequence.
LEMMA HeardNothing ==
    ASSUME NEW T \in Nat, NEW h \in HearType
    PROVE  <<>> \in Seq(Telling(T)) /\ Heard(h, <<>>) = h
<1>1. <<>> \in Seq(Telling(T)) /\ Len(<<>>) = 0
  OBVIOUS
<1>2. ASSUME NEW told \in Seq(Telling(T)), Len(told) = 0 PROVE Heard(h, told) = h
  BY <1>2, HeardEmpty
<1> QED
  BY <1>1, <1>2

\* What is told in two parts is heard in two parts.
LEMMA HeardConcat ==
    ASSUME NEW T \in Nat, NEW h \in HearType, NEW s \in Seq(Telling(T)), NEW t \in Seq(Telling(T))
    PROVE  s \o t \in Seq(Telling(T)) /\ Heard(h, s \o t) = Heard(Heard(h, s), t)
<1> DEFINE m == Len(s)
           n == Len(t)
           u == s \o t
<1>1. /\ m \in Nat /\ n \in Nat /\ u \in Seq(Telling(T)) /\ Len(u) = m + n
      /\ \A i \in 1..(m + n) : u[i] = IF i <= m THEN s[i] ELSE t[i - m]
  BY ConcatProperties, LenProperties
<1>a. m \in Nat /\ n \in Nat /\ m + n \in Nat
  BY <1>1
<1>b. u \in Seq(Telling(T)) /\ Len(u) = m + n
  BY <1>1
<1> HIDE DEF m, n, u
<1>2. PICK f \in [0..m -> HearType] :
         f[0] = h /\ (\A i \in 1..m : f[i] = Hear(f[i - 1], s[i])) /\ Heard(h, s) = f[m]
  BY HeardLoop DEF m
<1>3. Heard(h, s) \in HearType
  BY HeardTyped
<1>4. PICK g \in [0..n -> HearType] :
         g[0] = Heard(h, s) /\ (\A i \in 1..n : g[i] = Hear(g[i - 1], t[i]))
         /\ Heard(Heard(h, s), t) = g[n]
  BY <1>3, HeardLoop DEF n
<1>5. PICK k \in [0..(m + n) -> HearType] :
         k[0] = h /\ (\A i \in 1..(m + n) : k[i] = Hear(k[i - 1], u[i])) /\ Heard(h, u) = k[m + n]
  <2>1. PICK k \in [0..Len(u) -> HearType] :
           k[0] = h /\ (\A i \in 1..Len(u) : k[i] = Hear(k[i - 1], u[i])) /\ Heard(h, u) = k[Len(u)]
    BY <1>b, HeardLoop
  <2> QED
    BY <2>1, <1>b
<1> DEFINE A == {i \in 0..m : k[i] = f[i]}
           B == {i \in 0..n : k[m + i] = g[i]}
<1>6. m \in A
  <2>1. 0 \in A
    BY <1>1, <1>2, <1>5
  <2>2. ASSUME NEW i \in 1..m, i - 1 \in A PROVE i \in A
    <3>1. i \in 1..(m + n) /\ u[i] = s[i] /\ i \in 0..m
      BY <1>1
    <3> QED
      BY <3>1, <2>2, <1>2, <1>5
  <2>3. A \in SUBSET (0..m)
    OBVIOUS
  <2> HIDE DEF A
  <2> QED
    BY <1>a, <2>1, <2>2, <2>3, IntervalInduction
<1>7. n \in B
  <2>1. 0 \in B
    BY <1>1, <1>2, <1>4, <1>6
  <2>2. ASSUME NEW i \in 1..n, i - 1 \in B PROVE i \in B
    <3>a. m + i \in 1..(m + n) /\ i \in 0..n /\ (m + i) - 1 = m + (i - 1) /\ ~(m + i <= m) /\ (m + i) - m = i
      BY <1>a
    <3>1. u[m + i] = t[i]
      BY <3>a, <1>1
    <3>2. k[m + i] = Hear(k[m + (i - 1)], t[i])
      BY <3>a, <3>1, <1>5
    <3> QED
      BY <3>a, <3>2, <2>2, <1>4
  <2>3. B \in SUBSET (0..n)
    OBVIOUS
  <2> HIDE DEF B
  <2> QED
    <3>1. \A i \in 1..n : i - 1 \in B => i \in B
      BY <2>2
    <3>2. B = 0..n
      BY <1>a, <2>1, <3>1, <2>3, IntervalInduction, SMTT(60)
    <3> QED
      BY <3>2, <1>a
<1> QED
  BY <1>1, <1>4, <1>5, <1>7 DEF u

\* One gesture is heard.
LEMMA HeardOne ==
    ASSUME NEW T \in Nat, NEW h \in HearType, NEW g \in Telling(T)
    PROVE  <<g>> \in Seq(Telling(T)) /\ Heard(h, <<g>>) = Hear(h, g)
<1>1. <<g>> \in Seq(Telling(T)) /\ Len(<<g>>) = 1 /\ <<g>>[1] = g
  OBVIOUS
<1>2. PICK f \in [0..1 -> HearType] :
         f[0] = h /\ (\A i \in 1..1 : f[i] = Hear(f[i - 1], <<g>>[i])) /\ Heard(h, <<g>>) = f[1]
  BY <1>1, HeardLoop
<1> QED
  BY <1>1, <1>2

\* One more thing is told, or not.
LEMMA TellMore ==
    ASSUME NEW T \in Nat, NEW h \in HearType, NEW s \in Seq(Telling(T)), NEW g \in Telling(T)
    PROVE  s \o <<g>> \in Seq(Telling(T)) /\ Heard(h, s \o <<g>>) = Hear(Heard(h, s), g)
<1>1. Heard(h, s) \in HearType
  BY HeardTyped
<1>2. <<g>> \in Seq(Telling(T)) /\ Heard(Heard(h, s), <<g>>) = Hear(Heard(h, s), g)
  BY <1>1, HeardOne
<1>3. s \o <<g>> \in Seq(Telling(T)) /\ Heard(h, s \o <<g>>) = Heard(Heard(h, s), <<g>>)
  BY <1>2, HeardConcat
<1> QED
  BY <1>2, <1>3

\* To tell one gesture more under a condition is to have it heard last.
ToldWhen(T, h, s, c, g) ==
    /\ s \o When(c, g) \in Seq(Telling(T))
    /\ Heard(h, s \o When(c, g)) = IF c THEN Hear(Heard(h, s), g) ELSE Heard(h, s)

\* A gesture told under a condition is heard under it.
LEMMA TellOne ==
    ASSUME NEW T \in Nat, NEW h \in HearType, NEW s \in Seq(Telling(T)), NEW c \in BOOLEAN,
           NEW g \in Telling(T)
    PROVE  ToldWhen(T, h, s, c, g)
<1>1. CASE c
  <2>1. When(c, g) = <<g>>
    BY <1>1 DEF When
  <2>2. s \o <<g>> \in Seq(Telling(T)) /\ Heard(h, s \o <<g>>) = Hear(Heard(h, s), g)
    BY TellMore
  <2> QED
    BY <1>1, <2>1, <2>2 DEF ToldWhen
<1>2. CASE ~c
  <2>1. s \o When(c, g) = s
    <3>1. When(c, g) = <<>>
      BY <1>2 DEF When
    <3>2. s \o <<>> = s
      BY ConcatEmptySeq
    <3> QED
      BY <3>1, <3>2
  <2> QED
    BY <1>2, <2>1 DEF ToldWhen
<1> QED
  BY <1>1, <1>2
-----------------------------------------------------------------------------
(* Working states that agree with what the consumer heard.                 *)

\* A pointer has one track; a pointer of a pinch drags nothing; the pinch is
\* of two pointers that have a track each.
Apart(s) == \A i, j \in TrackSlots :
    s.tracks[i] # None /\ s.tracks[j] # None /\ s.tracks[i].id = s.tracks[j].id => i = j

\* The pointers of a pinch drag no more.
Absorbed(s) == \A i \in TrackSlots :
    s.tracks[i] # None /\ s.tracks[i].pinched => ~s.tracks[i].dragging

\* The slot of this pointer is part of the pinch.
InPair(s, id) == \E i \in TrackSlots :
    s.tracks[i] # None /\ s.tracks[i].id = id /\ s.tracks[i].pinched

\* The two pointers of the pinch are tracked, and two.
Paired(s) == s.pinch # None =>
    s.pinch[1] # s.pinch[2] /\ InPair(s, s.pinch[1]) /\ InPair(s, s.pinch[2])

\* This pointer drags.
Drags(s, id) == \E i \in TrackSlots :
    s.tracks[i] # None /\ s.tracks[i].id = id /\ s.tracks[i].dragging

\* What has begun and not ended is what the recognizer is doing.
Matches(s, open) ==
    /\ \A a \in PointerIds : Drag(a) \in open <=> Drags(s, a)
    /\ \A p \in PointerIds \X PointerIds :
          (Pan(p) \in open <=> s.pinch = p) /\ (Pinch(p) \in open <=> s.pinch = p)
    /\ \A x \in open : \/ \E a \in PointerIds : x = Drag(a)
                       \/ \E p \in PointerIds \X PointerIds : x = Pan(p) \/ x = Pinch(p)

\* A working state and what was told of it agree.
Fits(s, r) ==
    /\ Apart(s) /\ Absorbed(s) /\ Paired(s) /\ Matches(s, r.open)
    /\ r \in HearType /\ r.orderly /\ (s.tap # None => r.taps >= 1)

\* A working state of update is sound: it does not outgrow the output, and
\* agrees with what a consumer that remembered h hears of it.
Sound(T, h, s) ==
    s \in Work(T) /\ (s.ok => Len(s.out) <= MaxGestures /\ Fits(s, Heard(h, s.out)))

\* To emit keeps a working state sound where the new gestures do.
LEMMA EmitSound ==
    ASSUME NEW T \in Nat, NEW h \in HearType, NEW s \in Work(T), NEW events \in Seq(Telling(T)),
           s.ok => Fits(s, Heard(Heard(h, s.out), events))
    PROVE  /\ Sound(T, h, Emit(s, events))
           /\ Emit(s, events).tracks = s.tracks /\ Emit(s, events).pinch = s.pinch
           /\ Emit(s, events).tap = s.tap
           /\ Emit(s, events).ok => s.ok
<1> DEFINE u == s.out \o events
           r == Emit(s, events)
<1>1. s.out \in Seq(Telling(T))
  BY DEF Work
<1>2. u \in Seq(Telling(T)) /\ Heard(h, u) = Heard(Heard(h, s.out), events)
      /\ Len(u) = Len(s.out) + Len(events)
  BY <1>1, HeardConcat, ConcatProperties
<1> HIDE DEF u
<1>3. CASE Len(s.out) + Len(events) <= MaxGestures
  <2>1. r = [s EXCEPT !.out = u]
    BY <1>3 DEF Emit, u
  <2>2. [s EXCEPT !.out = u] \in Work(T)
    BY <1>2 DEF Work
  <2> HIDE DEF r
  <2>3. /\ r.tracks = s.tracks /\ r.pinch = s.pinch /\ r.tap = s.tap /\ r.ok = s.ok /\ r.out = u
    BY <2>1 DEF Work
  <2>4. s.ok => Fits(r, Heard(h, r.out))
    BY <2>3, <1>2 DEF Fits, Apart, Absorbed, Paired, InPair, Matches, Drags
  <2>5. Sound(T, h, r)
    BY <2>1, <2>2, <2>3, <2>4, <1>2, <1>3 DEF Sound
  <2> QED
    BY <2>3, <2>5 DEF r
<1>4. CASE ~(Len(s.out) + Len(events) <= MaxGestures)
  <2>1. r = [s EXCEPT !.ok = FALSE]
    BY <1>4 DEF Emit
  <2>2. [s EXCEPT !.ok = FALSE] \in Work(T)
    BY DEF Work
  <2> HIDE DEF r
  <2>3. /\ r.tracks = s.tracks /\ r.pinch = s.pinch /\ r.tap = s.tap /\ ~r.ok
    BY <2>1 DEF Work
  <2> QED
    BY <2>1, <2>2, <2>3 DEF Sound, r
<1> QED
  BY <1>3, <1>4

\* A failed working state is sound.
LEMMA FailsSound ==
    ASSUME NEW T \in Nat, NEW h, NEW s \in Work(T)
    PROVE  Sound(T, h, Fails(s)) /\ ~Fails(s).ok
  BY DEF Sound, Fails, Work

\* The slot of a pointer.
LEMMA SlotHolds ==
    ASSUME NEW T \in Nat, NEW s \in Work(T), NEW id, Tracked(s, id)
    PROVE  LET i == SlotOf(s, id) IN
           i \in TrackSlots /\ s.tracks[i] \in TrackType /\ s.tracks[i] # None /\ s.tracks[i].id = id
<1>1. Holds(s, id) # {} /\ Holds(s, id) \in SUBSET Nat
  BY DEF Tracked, Holds, TrackSlots
<1>2. PICK m \in Holds(s, id) : \A d \in Holds(s, id) : m <= d
  BY <1>1, Least
<1>3. SlotOf(s, id) \in Holds(s, id)
  BY <1>2 DEF SlotOf, Min
<1> QED
  BY <1>3 DEF Holds, Work, TrackSlots

\* A first gesture, told under a condition.
LEMMA TellFirst ==
    ASSUME NEW T \in Nat, NEW h \in HearType, NEW c \in BOOLEAN, NEW g \in Telling(T)
    PROVE  /\ When(c, g) \in Seq(Telling(T))
           /\ Heard(h, When(c, g)) = IF c THEN Hear(h, g) ELSE h
<1>1. CASE c
  BY <1>1, HeardOne DEF When
<1>2. CASE ~c
  BY <1>2, HeardNothing DEF When
<1> QED
  BY <1>1, <1>2

\* Two gestures are heard one after the other.
LEMMA TellTwo ==
    ASSUME NEW T \in Nat, NEW h \in HearType, NEW g \in Telling(T), NEW k \in Telling(T)
    PROVE  /\ <<g, k>> \in Seq(Telling(T))
           /\ Heard(h, <<g, k>>) = Hear(Hear(h, g), k)
<1>1. <<g>> \in Seq(Telling(T)) /\ Heard(h, <<g>>) = Hear(h, g) /\ Hear(h, g) \in HearType
  BY HeardOne, HearTyped
<1>2. <<k>> \in Seq(Telling(T)) /\ Heard(Hear(h, g), <<k>>) = Hear(Hear(h, g), k)
  BY <1>1, HeardOne
<1> DEFINE u == <<g>>
           v == <<k>>
           w == <<g, k>>
<1>3. /\ u \in Seq(Telling(T)) /\ Len(u) = 1 /\ u[1] = g
      /\ v \in Seq(Telling(T)) /\ Len(v) = 1 /\ v[1] = k
      /\ w \in Seq(Telling(T)) /\ Len(w) = 2 /\ w[1] = g /\ w[2] = k
  OBVIOUS
<1>4. Heard(h, u) = Hear(h, g) /\ Heard(Hear(h, g), v) = Hear(Hear(h, g), k)
  BY <1>1, <1>2
<1> SUFFICES w \in Seq(Telling(T)) /\ Heard(h, w) = Hear(Hear(h, g), k)
  OBVIOUS
<1> HIDE DEF u, v, w
<1>a. u \in Seq(Telling(T)) /\ v \in Seq(Telling(T))
  BY <1>3
<1>b. /\ u \o v \in Seq(Telling(T)) /\ Len(u \o v) = Len(u) + Len(v)
      /\ \A i \in 1..(Len(u) + Len(v)) : (u \o v)[i] = IF i <= Len(u) THEN u[i] ELSE v[i - Len(u)]
  BY <1>a, ConcatProperties
<1>5. /\ u \o v \in Seq(Telling(T)) /\ Len(u \o v) = 2
      /\ (u \o v)[1] = g /\ (u \o v)[2] = k
  BY <1>3, <1>b
<1>6. w = u \o v
  <2>1. \A i \in 1..Len(w) : w[i] = (u \o v)[i]
    BY <1>3, <1>5
  <2> QED
    BY <2>1, <1>3, <1>5, SeqEqual
<1> QED
  BY <1>3, <1>4, <1>6, HeardConcat

\* A new gesture is one.
LEMMA GestureTyped ==
    ASSUME NEW T \in Nat, NEW type \in GestureTypes, NEW ids \in Groups, NEW ts \in 0..T
    PROVE  LET g == Gesture(type, ids, ts) IN
           g \in Telling(T) /\ g.type = type /\ g.ids = ids
  BY DEF Gesture, Telling

\* The fields of a working state.
LEMMA WorkParts ==
    ASSUME NEW T, NEW s \in Work(T)
    PROVE  /\ s.tracks \in [TrackSlots -> TrackType \cup {None}]
           /\ s.pinch \in (PointerIds \X PointerIds) \cup {None}
           /\ s.tap \in TapType \cup {None}
           /\ s.out \in Seq(Telling(T)) /\ s.ok \in BOOLEAN
  BY DEF Work

\* The fields of a track.
LEMMA TrackParts ==
    ASSUME NEW T, NEW s \in Work(T), NEW i \in TrackSlots, s.tracks[i] # None
    PROVE  LET t == s.tracks[i] IN
           /\ t \in TrackType /\ t.id \in PointerIds
           /\ t.dragging \in BOOLEAN /\ t.pinched \in BOOLEAN /\ t.longPressed \in BOOLEAN
           /\ t.x \in Positions /\ t.start \in Positions /\ t.down \in 0..MaxTime
  BY DEF Work, TrackType

\* Two pointers that take part in no pinch begin one.
LEMMA PairFits ==
    ASSUME NEW T \in Nat, NEW s \in Work(T), NEW r, Fits(s, r), s.pinch = None,
           NEW a \in TrackSlots, NEW b \in TrackSlots, a # b,
           s.tracks[a] # None, s.tracks[b] # None, ~s.tracks[a].pinched, ~s.tracks[b].pinched,
           NEW new \in Work(T), NEW q \in HearType,
           new.tap = s.tap, new.pinch = <<s.tracks[a].id, s.tracks[b].id>>,
           \A i \in TrackSlots : i # a /\ i # b => new.tracks[i] = s.tracks[i],
           \A i \in {a, b} : /\ new.tracks[i] # None /\ new.tracks[i].id = s.tracks[i].id
                             /\ new.tracks[i].pinched /\ ~new.tracks[i].dragging,
           q.orderly, q.taps = r.taps,
           q.open = (r.open \ {Drag(s.tracks[a].id), Drag(s.tracks[b].id)})
                       \cup {Pan(new.pinch), Pinch(new.pinch)}
    PROVE  Fits(new, q)
<1>1. s.tracks[a].id \in PointerIds /\ s.tracks[b].id \in PointerIds /\ s.tracks[a].id # s.tracks[b].id
  BY TrackParts DEF Fits, Apart
<1>2. Apart(new) /\ Absorbed(new)
  BY DEF Fits, Apart, Absorbed
<1>3. Paired(new)
  <2>1. InPair(new, s.tracks[a].id) /\ InPair(new, s.tracks[b].id)
    BY DEF InPair
  <2> QED
    BY <1>1, <2>1 DEF Paired
<1>4. new.pinch \in PointerIds \X PointerIds /\ new.pinch # None
  BY <1>1, NoneAssumption
<1>5. Matches(new, q.open)
  <2>1. ASSUME NEW c \in PointerIds PROVE Drag(c) \in q.open <=> Drags(new, c)
    <3>1. Drag(c) \in q.open <=> Drag(c) \in r.open /\ c # s.tracks[a].id /\ c # s.tracks[b].id
      BY OpensDiffer
    <3>2. Drag(c) \in r.open <=> Drags(s, c)
      BY DEF Fits, Matches
    <3>3. Drags(new, c) <=> Drags(s, c) /\ c # s.tracks[a].id /\ c # s.tracks[b].id
      BY DEF Drags, Fits, Apart
    <3> QED
      BY <3>1, <3>2, <3>3
  <2>2. ASSUME NEW p \in PointerIds \X PointerIds
        PROVE  (Pan(p) \in q.open <=> new.pinch = p) /\ (Pinch(p) \in q.open <=> new.pinch = p)
    <3>1. s.pinch # p
      BY NoneAssumption
    <3>2. Pan(p) \notin r.open /\ Pinch(p) \notin r.open
      BY <3>1 DEF Fits, Matches
    <3> QED
      BY <3>2, OpensDiffer
  <2>3. ASSUME NEW x \in q.open
        PROVE  \/ \E c \in PointerIds : x = Drag(c)
               \/ \E p \in PointerIds \X PointerIds : x = Pan(p) \/ x = Pinch(p)
    BY <1>4 DEF Fits, Matches
  <2> QED
    BY <2>1, <2>2, <2>3 DEF Matches
<1> QED
  BY <1>2, <1>3, <1>5 DEF Fits

\* What the gestures of a drag do to the memory.
LEMMA DragTold ==
    ASSUME NEW T \in Nat, NEW h \in HearType, NEW a, NEW g \in Telling(T), g.ids = <<a>>
    PROVE  LET r == Hear(h, g) IN
           /\ r \in HearType
           /\ g.type \in {"DragBegin", "DragUpdate", "DragEnd"} => r.taps = h.taps
           /\ g.type = "DragBegin"  => /\ r.open = h.open \cup {Drag(a)}
                                       /\ r.orderly <=> (h.orderly /\ Drag(a) \notin h.open)
           /\ g.type = "DragUpdate" => /\ r.open = h.open
                                       /\ r.orderly <=> (h.orderly /\ Drag(a) \in h.open)
           /\ g.type = "DragEnd"    => /\ r.open = h.open \ {Drag(a)}
                                       /\ r.orderly <=> (h.orderly /\ Drag(a) \in h.open)
<1>1. Hear(h, g) \in HearType /\ Drag(a) = <<"Drag", g.ids>>
  BY HearTyped DEF Drag
<1>2. CASE g.type = "DragBegin"
  <2>1. <<"Drag", g.type>> \in {<<"Drag", "DragBegin">>, <<"Pan", "PanBegin">>, <<"Pinch", "PinchBegin">>}
    BY <1>2
  <2>2. LET r == Hear(h, g) IN
        /\ r \in HearType /\ r.taps = h.taps
        /\ r.open = h.open \cup {<<"Drag", g.ids>>}
        /\ r.orderly <=> h.orderly /\ <<"Drag", g.ids>> \notin h.open
    BY <2>1, HearBegin
  <2> QED
    BY <1>1, <1>2, <2>2
<1>3. CASE g.type = "DragUpdate"
  BY <1>1, <1>3, HearUpdate
<1>4. CASE g.type = "DragEnd"
  <2>1. <<"Drag", g.type>> \in {<<"Drag", "DragEnd">>, <<"Pan", "PanEnd">>, <<"Pinch", "PinchEnd">>}
    BY <1>4
  <2>2. LET r == Hear(h, g) IN
        /\ r \in HearType /\ r.taps = h.taps
        /\ r.open = h.open \ {<<"Drag", g.ids>>}
        /\ r.orderly <=> h.orderly /\ <<"Drag", g.ids>> \in h.open
    BY <2>1, HearEnd
  <2> QED
    BY <1>1, <1>4, <2>2
<1> QED
  BY <1>1, <1>2, <1>3, <1>4

\* What the gestures of a pan do to it.
LEMMA PanTold ==
    ASSUME NEW T \in Nat, NEW h \in HearType, NEW g \in Telling(T)
    PROVE  LET r == Hear(h, g)
               p == Pan(g.ids) IN
           /\ r \in HearType
           /\ g.type \in {"PanBegin", "PanUpdate", "PanEnd"} => r.taps = h.taps
           /\ g.type = "PanBegin"  => r.open = h.open \cup {p} /\ (r.orderly <=> (h.orderly /\ p \notin h.open))
           /\ g.type = "PanUpdate" => r.open = h.open /\ (r.orderly <=> (h.orderly /\ p \in h.open))
           /\ g.type = "PanEnd"    => r.open = h.open \ {p} /\ (r.orderly <=> (h.orderly /\ p \in h.open))
<1>1. Hear(h, g) \in HearType /\ Pan(g.ids) = <<"Pan", g.ids>>
  BY HearTyped DEF Pan
<1>2. CASE g.type = "PanBegin"
  <2>1. <<"Pan", g.type>> \in {<<"Drag", "DragBegin">>, <<"Pan", "PanBegin">>, <<"Pinch", "PinchBegin">>}
    BY <1>2
  <2>2. LET r == Hear(h, g) IN
        /\ r \in HearType /\ r.taps = h.taps
        /\ r.open = h.open \cup {<<"Pan", g.ids>>}
        /\ r.orderly <=> h.orderly /\ <<"Pan", g.ids>> \notin h.open
    BY <2>1, HearBegin
  <2> QED
    BY <1>1, <1>2, <2>2
<1>3. CASE g.type = "PanUpdate"
  BY <1>1, <1>3, HearUpdate
<1>4. CASE g.type = "PanEnd"
  <2>1. <<"Pan", g.type>> \in {<<"Drag", "DragEnd">>, <<"Pan", "PanEnd">>, <<"Pinch", "PinchEnd">>}
    BY <1>4
  <2>2. LET r == Hear(h, g) IN
        /\ r \in HearType /\ r.taps = h.taps
        /\ r.open = h.open \ {<<"Pan", g.ids>>}
        /\ r.orderly <=> h.orderly /\ <<"Pan", g.ids>> \in h.open
    BY <2>1, HearEnd
  <2> QED
    BY <1>1, <1>4, <2>2
<1> QED
  BY <1>1, <1>2, <1>3, <1>4

\* What the gestures of a pinch do to it.
LEMMA PinchTold ==
    ASSUME NEW T \in Nat, NEW h \in HearType, NEW g \in Telling(T)
    PROVE  LET r == Hear(h, g)
               p == Pinch(g.ids) IN
           /\ r \in HearType
           /\ g.type \in {"PinchBegin", "PinchUpdate", "PinchEnd"} => r.taps = h.taps
           /\ g.type = "PinchBegin"  => r.open = h.open \cup {p} /\ (r.orderly <=> (h.orderly /\ p \notin h.open))
           /\ g.type = "PinchUpdate" => r.open = h.open /\ (r.orderly <=> (h.orderly /\ p \in h.open))
           /\ g.type = "PinchEnd"    => r.open = h.open \ {p} /\ (r.orderly <=> (h.orderly /\ p \in h.open))
<1>1. Hear(h, g) \in HearType /\ Pinch(g.ids) = <<"Pinch", g.ids>>
  BY HearTyped DEF Pinch
<1>2. CASE g.type = "PinchBegin"
  <2>1. <<"Pinch", g.type>> \in {<<"Drag", "DragBegin">>, <<"Pan", "PanBegin">>, <<"Pinch", "PinchBegin">>}
    BY <1>2
  <2>2. LET r == Hear(h, g) IN
        /\ r \in HearType /\ r.taps = h.taps
        /\ r.open = h.open \cup {<<"Pinch", g.ids>>}
        /\ r.orderly <=> h.orderly /\ <<"Pinch", g.ids>> \notin h.open
    BY <2>1, HearBegin
  <2> QED
    BY <1>1, <1>2, <2>2
<1>3. CASE g.type = "PinchUpdate"
  BY <1>1, <1>3, HearUpdate
<1>4. CASE g.type = "PinchEnd"
  <2>1. <<"Pinch", g.type>> \in {<<"Drag", "DragEnd">>, <<"Pan", "PanEnd">>, <<"Pinch", "PinchEnd">>}
    BY <1>4
  <2>2. LET r == Hear(h, g) IN
        /\ r \in HearType /\ r.taps = h.taps
        /\ r.open = h.open \ {<<"Pinch", g.ids>>}
        /\ r.orderly <=> h.orderly /\ <<"Pinch", g.ids>> \in h.open
    BY <2>1, HearEnd
  <2> QED
    BY <1>1, <1>4, <2>2
<1> QED
  BY <1>1, <1>2, <1>3, <1>4

\* A pinch begins soundly: the drags of its pointers are ended first
\* (begin_pinch_if_possible).
LEMMA BeginPinchSound ==
    ASSUME NEW T \in Nat, NEW h \in HearType, NEW s, Sound(T, h, s), NEW ts \in 0..T
    PROVE  Sound(T, h, BeginPinchIfPossible(s, ts))
<1> DEFINE single == {i \in TrackSlots : s.tracks[i] # None /\ ~s.tracks[i].pinched}
           a      == Min(single)
           b      == Min(single \ {a})
           ids    == <<s.tracks[a].id, s.tracks[b].id>>
           EndA   == Gesture("DragEnd", <<s.tracks[a].id>>, ts)
           EndB   == Gesture("DragEnd", <<s.tracks[b].id>>, ts)
           A      == When(s.tracks[a].dragging, EndA)
           B      == When(s.tracks[b].dragging, EndB)
           Both   == <<Gesture("PanBegin", ids, ts), Gesture("PinchBegin", ids, ts)>>
           new    == [s EXCEPT !.pinch = ids,
                        !.tracks = [i \in TrackSlots |->
                          IF i \in {a, b} THEN [@[i] EXCEPT !.pinched = TRUE, !.dragging = FALSE]
                          ELSE @[i]]]
           idle   == s.pinch # None \/ single = {} \/ single = {a}
<1>1. CASE idle \/ (~idle /\ s.tracks[a].x = s.tracks[b].x)
  BY <1>1 DEF BeginPinchIfPossible
<1>2. CASE ~idle /\ s.tracks[a].x # s.tracks[b].x
  <2>0. BeginPinchIfPossible(s, ts) = Emit(new, A \o B \o Both)
    BY <1>2 DEF BeginPinchIfPossible
  <2>1. a \in single
    <3>1. PICK m \in single : \A d \in single : m <= d
      <4>1. single # {} /\ single \in SUBSET Nat
        BY <1>2 DEF TrackSlots
      <4> HIDE DEF single
      <4> QED
        BY <4>1, Least
    <3> HIDE DEF single
    <3> QED
      BY <3>1 DEF Min
  <2>2. b \in single \ {a}
    <3> DEFINE rest == single \ {a}
    <3>1. PICK m \in rest : \A d \in rest : m <= d
      <4>1. rest # {} /\ rest \in SUBSET Nat
        BY <1>2, <2>1 DEF TrackSlots
      <4> HIDE DEF rest
      <4> QED
        BY <4>1, Least
    <3> HIDE DEF rest
    <3> QED
      BY <3>1 DEF Min, rest
  <2>3. s \in Work(T) /\ s.pinch = None
    BY <1>2 DEF Sound
  <2>4. /\ a \in TrackSlots /\ s.tracks[a] # None /\ ~s.tracks[a].pinched
        /\ b \in TrackSlots /\ s.tracks[b] # None /\ ~s.tracks[b].pinched /\ a # b
    BY <2>1, <2>2
  <2> HIDE DEF single, a, b, idle
  <2>5. /\ s.tracks[a] \in TrackType /\ s.tracks[a].id \in PointerIds /\ s.tracks[a].dragging \in BOOLEAN
        /\ s.tracks[b] \in TrackType /\ s.tracks[b].id \in PointerIds /\ s.tracks[b].dragging \in BOOLEAN
    BY <2>3, <2>4, TrackParts
  <2>6. ids \in PointerIds \X PointerIds /\ ids \in Groups
        /\ <<s.tracks[a].id>> \in Groups /\ <<s.tracks[b].id>> \in Groups
    BY <2>5, OpensTyped
  <2> DEFINE ta == [s.tracks[a] EXCEPT !.pinched = TRUE, !.dragging = FALSE]
             tb == [s.tracks[b] EXCEPT !.pinched = TRUE, !.dragging = FALSE]
             tt == [i \in TrackSlots |->
                      IF i \in {a, b} THEN [s.tracks[i] EXCEPT !.pinched = TRUE, !.dragging = FALSE]
                      ELSE s.tracks[i]]
  <2>7. /\ ta \in TrackType /\ ta.pinched /\ ~ta.dragging /\ ta.id = s.tracks[a].id
        /\ tb \in TrackType /\ tb.pinched /\ ~tb.dragging /\ tb.id = s.tracks[b].id
    BY <2>5 DEF TrackType
  <2>8. new = [s EXCEPT !.pinch = ids, !.tracks = tt]
    BY <2>3 DEF Work
  <2>9. tt \in [TrackSlots -> TrackType \cup {None}] /\ tt[a] = ta /\ tt[b] = tb
        /\ \A i \in TrackSlots : i # a /\ i # b => tt[i] = s.tracks[i]
    BY <2>3, <2>4, <2>7 DEF Work
  <2> HIDE DEF ta, tb, tt, ids
  <2>10. [s EXCEPT !.pinch = ids, !.tracks = tt] \in Work(T)
    BY <2>3, <2>6, <2>9 DEF Work
  <2>11. /\ new \in Work(T) /\ new.tracks = tt /\ new.pinch = ids /\ new.tap = s.tap
         /\ new.out = s.out /\ new.ok = s.ok
    BY <2>8, <2>10, <2>3 DEF Work
  <2> HIDE DEF new
  <2>12. /\ EndA \in Telling(T) /\ EndA.type = "DragEnd" /\ EndA.ids = <<s.tracks[a].id>>
         /\ EndB \in Telling(T) /\ EndB.type = "DragEnd" /\ EndB.ids = <<s.tracks[b].id>>
    <3>1. "DragEnd" \in GestureTypes
      BY DEF GestureTypes, Endings
    <3>2. \A g \in Groups : /\ Gesture("DragEnd", g, ts) \in Telling(T)
                            /\ Gesture("DragEnd", g, ts).type = "DragEnd"
                            /\ Gesture("DragEnd", g, ts).ids = g
      BY <3>1, GestureTyped
    <3> QED
      BY <2>6, <3>2
  <2> DEFINE P == Gesture("PanBegin", ids, ts)
             Q == Gesture("PinchBegin", ids, ts)
  <2>13. /\ P \in Telling(T) /\ P.type = "PanBegin" /\ P.ids = ids
         /\ Q \in Telling(T) /\ Q.type = "PinchBegin" /\ Q.ids = ids
    BY <2>6, GestureTyped DEF GestureTypes, Beginnings
  <2> HIDE DEF EndA, EndB, P, Q
  <2>14. Both \in Seq(Telling(T)) /\ A \in Seq(Telling(T)) /\ A \o B \in Seq(Telling(T))
    <3>2. PICK r \in HearType : TRUE
      BY SomeHearing
    <3> QED
      BY <2>5, <2>12, <2>13, <3>2, TellFirst, TellOne, TellTwo DEF P, Q, ToldWhen
  <2>15. A \o B \o Both \in Seq(Telling(T))
    BY <2>14, HeardConcat, ConcatProperties
  <2>16. ASSUME new.ok
         PROVE  Fits(new, Heard(Heard(h, new.out), A \o B \o Both))
    <3> DEFINE r == Heard(h, s.out)
               ra == IF s.tracks[a].dragging THEN Hear(r, EndA) ELSE r
               rb == IF s.tracks[b].dragging THEN Hear(ra, EndB) ELSE ra
               rp == Hear(rb, P)
               q  == Hear(rp, Q)
    <3>1. Fits(s, r) /\ r \in HearType
      BY <2>16, <2>11 DEF Sound, Fits
    <3> HIDE DEF r
    <3>2. Heard(r, A) = ra /\ ra \in HearType
      BY <2>5, <2>12, <3>1, TellFirst, HearTyped
    <3>3. Heard(r, A \o B) = rb /\ rb \in HearType
      <4>1. Heard(r, A \o B) = IF s.tracks[b].dragging THEN Hear(Heard(r, A), EndB) ELSE Heard(r, A)
        <5> HIDE DEF A
        <5> QED
          BY <2>5, <2>12, <2>14, <3>1, TellOne DEF ToldWhen
      <4>2. Heard(r, A \o B) = rb
        BY <4>1, <3>2
      <4> HIDE DEF ra
      <4> QED
        BY <4>2, <3>2, <2>12, HearTyped
    <3>4. Heard(r, A \o B \o Both) = Heard(rb, Both)
      <4> DEFINE AB == A \o B
      <4>1. AB \in Seq(Telling(T)) /\ Heard(r, AB) = rb
        BY <2>14, <3>3
      <4> HIDE DEF AB, Both, rb
      <4>2. Heard(r, AB \o Both) = Heard(rb, Both)
        BY <2>14, <3>1, <4>1, HeardConcat
      <4> QED
        BY <4>2 DEF AB
    <3>5. Heard(rb, Both) = q
      BY <2>13, <3>3, TellTwo DEF P, Q
    <3> SUFFICES Fits(new, q)
      BY <3>4, <3>5, <2>11 DEF r
    <3>6. /\ Drag(s.tracks[a].id) \in r.open <=> s.tracks[a].dragging
          /\ Drag(s.tracks[b].id) \in r.open <=> s.tracks[b].dragging
          /\ s.tracks[a].id # s.tracks[b].id
      BY <3>1, <2>4, <2>5 DEF Fits, Matches, Drags, Apart
    <3>7. /\ ra.open = r.open \ {Drag(s.tracks[a].id)} /\ ra.taps = r.taps /\ ra.orderly
      <4>1. CASE s.tracks[a].dragging
        BY <4>1, <3>1, <3>6, <2>12, DragTold DEF Fits
      <4>2. CASE ~s.tracks[a].dragging
        BY <4>2, <3>1, <3>6 DEF Fits
      <4> QED
        BY <4>1, <4>2
    <3>8. /\ rb.open = ra.open \ {Drag(s.tracks[b].id)} /\ rb.taps = r.taps /\ rb.orderly
      <4>0. Drag(s.tracks[b].id) \in ra.open <=> s.tracks[b].dragging
        BY <3>6, <3>7, OpensDiffer
      <4> HIDE DEF ra
      <4>1. CASE s.tracks[b].dragging
        BY <4>0, <4>1, <3>2, <3>7, <2>12, DragTold
      <4>2. CASE ~s.tracks[b].dragging
        BY <4>0, <4>2, <3>7
      <4> QED
        BY <4>1, <4>2
    <3> HIDE DEF ra, rb
    <3>9. Pan(ids) \notin r.open /\ Pinch(ids) \notin r.open
      BY <3>1, <2>3, <2>6, NoneAssumption DEF Fits, Matches
    <3>17. Pan(ids) \notin rb.open
      BY <3>7, <3>8, <3>9
    <3>18. /\ rp \in HearType /\ rp.taps = rb.taps /\ rp.open = rb.open \cup {Pan(ids)}
           /\ rp.orderly <=> (rb.orderly /\ Pan(ids) \notin rb.open)
      BY <3>3, <2>13, PanTold
    <3> HIDE DEF rp
    <3>10. rp \in HearType /\ rp.orderly /\ rp.taps = r.taps /\ rp.open = rb.open \cup {Pan(ids)}
      BY <3>8, <3>17, <3>18
    <3>11. Pinch(ids) \notin rp.open
      BY <3>7, <3>8, <3>9, <3>10, OpensDiffer
    <3>12. q \in HearType /\ q.orderly /\ q.taps = r.taps /\ q.open = rp.open \cup {Pinch(ids)}
      BY <3>10, <3>11, <2>13, PinchTold
    <3> HIDE DEF q
    <3>13. q.open = (r.open \ {Drag(s.tracks[a].id), Drag(s.tracks[b].id)}) \cup {Pan(ids), Pinch(ids)}
      BY <3>7, <3>8, <3>10, <3>12, OpensDiffer
    <3>14. \A i \in {a, b} : /\ tt[i] # None /\ tt[i].id = s.tracks[i].id /\ tt[i].pinched /\ ~tt[i].dragging
      BY <2>7, <2>9, NoneAssumption
    <3>15. new.pinch = <<s.tracks[a].id, s.tracks[b].id>>
      BY <2>11 DEF ids
    <3>16. \A i \in TrackSlots : i # a /\ i # b => new.tracks[i] = s.tracks[i]
      BY <2>9, <2>11
    <3> QED
      BY <2>3, <2>4, <2>11, <3>1, <3>12, <3>13, <3>14, <3>15, <3>16, PairFits
  <2>17. Sound(T, h, Emit(new, A \o B \o Both))
    <3> HIDE DEF A, B, Both
    <3> QED
      BY <2>11, <2>15, <2>16, EmitSound
  <2> QED
    BY <2>0, <2>17
<1> QED
  BY <1>1, <1>2

\* The distance of the pointers of a pinch.
LEMMA SpreadTyped ==
    ASSUME NEW T \in Nat, NEW s \in Work(T), s.pinch # None, BothTracked(s)
    PROVE  Spread(s) \in Nat
<1> DEFINE i == SlotOf(s, s.pinch[1])
           j == SlotOf(s, s.pinch[2])
<1>1. Tracked(s, s.pinch[1]) /\ Tracked(s, s.pinch[2])
  BY DEF BothTracked
<1>2. /\ i \in TrackSlots /\ s.tracks[i] # None
      /\ j \in TrackSlots /\ s.tracks[j] # None
  BY <1>1, SlotHolds
<1>3. Spread(s) = Distance(s.tracks[i].x, s.tracks[j].x)
  BY DEF Spread
<1> HIDE DEF i, j
<1>4. s.tracks[i].x \in Int /\ s.tracks[j].x \in Int
  BY <1>2, TrackParts, PositionAssumption
<1>5. \A m, n \in Int : Distance(m, n) \in Nat
  BY DEF Distance
<1> QED
  BY <1>3, <1>4, <1>5

\* A pinch that ends leaves everything else as it is.
LEMMA PartFits ==
    ASSUME NEW T \in Nat, NEW s \in Work(T), NEW r, Fits(s, r), s.pinch # None,
           NEW new \in Work(T), NEW q \in HearType,
           new.tap = s.tap, new.pinch = None, new.tracks = s.tracks,
           q.orderly, q.taps = r.taps, q.open = r.open \ {Pan(s.pinch), Pinch(s.pinch)}
    PROVE  Fits(new, q)
<1>1. Apart(new) /\ Absorbed(new) /\ Paired(new)
  BY DEF Fits, Apart, Absorbed, Paired
<1>2. Matches(new, q.open)
  <2>1. ASSUME NEW c \in PointerIds PROVE Drag(c) \in q.open <=> Drags(new, c)
    <3>1. Drag(c) \in q.open <=> Drag(c) \in r.open
      BY OpensDiffer
    <3>2. Drag(c) \in r.open <=> Drags(s, c)
      BY DEF Fits, Matches
    <3> QED
      BY <3>1, <3>2 DEF Drags
  <2>2. ASSUME NEW p \in PointerIds \X PointerIds
        PROVE  (Pan(p) \in q.open <=> new.pinch = p) /\ (Pinch(p) \in q.open <=> new.pinch = p)
    <3>1. new.pinch # p
      BY NoneAssumption
    <3>2. Pan(p) \in r.open \/ Pinch(p) \in r.open => s.pinch = p
      BY DEF Fits, Matches
    <3> QED
      BY <3>1, <3>2
  <2> QED
    BY <2>1, <2>2 DEF Matches, Fits
<1> QED
  BY <1>1, <1>2 DEF Fits

\* A pinch ends soundly (end_pinch).
LEMMA EndPinchSound ==
    ASSUME NEW T \in Nat, NEW h \in HearType, NEW s, Sound(T, h, s), NEW ts \in 0..T,
           NEW cancelled \in BOOLEAN
    PROVE  LET r == EndPinch(s, ts, cancelled) IN
           /\ Sound(T, h, r)
           /\ r.tracks = s.tracks /\ r.tap = s.tap /\ r.pinch = None /\ (r.ok => s.ok)
<1>1. CASE s.pinch = None
  BY <1>1 DEF EndPinch
<1>2. CASE s.pinch # None
  <2> DEFINE distance == IF BothTracked(s) THEN Spread(s) ELSE 1
             P == [[Gesture("PinchEnd", s.pinch, ts) EXCEPT !.cancelled = cancelled] EXCEPT !.distance = distance]
             Q == [Gesture("PanEnd", s.pinch, ts) EXCEPT !.cancelled = cancelled]
             new == [s EXCEPT !.pinch = None]
  <2>1. s \in Work(T) /\ s.pinch \in PointerIds \X PointerIds /\ s.pinch \in Groups
    BY <1>2, WorkParts, OpensTyped DEF Sound
  <2>2. distance \in Nat
    BY <1>2, <2>1, SpreadTyped
  <2>3. EndPinch(s, ts, cancelled) = Emit(new, <<P, Q>>)
    BY <1>2 DEF EndPinch
  <2> HIDE DEF distance
  <2>4. /\ P \in Telling(T) /\ P.type = "PinchEnd" /\ P.ids = s.pinch
        /\ Q \in Telling(T) /\ Q.type = "PanEnd" /\ Q.ids = s.pinch
    BY <2>1, <2>2 DEF Gesture, Telling, GestureTypes, Endings
  <2>5. /\ new \in Work(T) /\ new.tracks = s.tracks /\ new.pinch = None /\ new.tap = s.tap
        /\ new.out = s.out /\ new.ok = s.ok
    BY <2>1 DEF Work
  <2> HIDE DEF P, Q, new
  <2>6. \E r \in HearType : TRUE
    BY SomeHearing
  <2>7. <<P, Q>> \in Seq(Telling(T))
    BY <2>4, <2>6, TellTwo
  <2>8. ASSUME new.ok PROVE Fits(new, Heard(Heard(h, new.out), <<P, Q>>))
    <3> DEFINE r == Heard(h, s.out)
               rp == Hear(r, P)
               q == Hear(rp, Q)
    <3>1. Fits(s, r) /\ r \in HearType
      BY <2>5, <2>8 DEF Sound, Fits
    <3> HIDE DEF r
    <3>2. Heard(r, <<P, Q>>) = q
      BY <2>4, <3>1, TellTwo
    <3>3. Pan(s.pinch) \in r.open /\ Pinch(s.pinch) \in r.open /\ r.orderly
      BY <2>1, <3>1 DEF Fits, Matches
    <3>4. rp \in HearType /\ rp.orderly /\ rp.taps = r.taps /\ rp.open = r.open \ {Pinch(s.pinch)}
      BY <2>4, <3>1, <3>3, PinchTold
    <3> HIDE DEF rp
    <3>5. Pan(s.pinch) \in rp.open
      BY <3>3, <3>4, OpensDiffer
    <3>6. q \in HearType /\ q.orderly /\ q.taps = r.taps /\ q.open = rp.open \ {Pan(s.pinch)}
      BY <2>4, <3>4, <3>5, PanTold
    <3> HIDE DEF q
    <3>7. q.open = r.open \ {Pan(s.pinch), Pinch(s.pinch)}
      BY <3>4, <3>6
    <3>8. Fits(new, q)
      BY <1>2, <2>1, <2>5, <3>1, <3>6, <3>7, PartFits
    <3> QED
      BY <3>2, <3>8, <2>5 DEF r
  <2>9. /\ Sound(T, h, Emit(new, <<P, Q>>))
        /\ Emit(new, <<P, Q>>).tracks = new.tracks /\ Emit(new, <<P, Q>>).pinch = new.pinch
        /\ Emit(new, <<P, Q>>).tap = new.tap /\ (Emit(new, <<P, Q>>).ok => new.ok)
    BY <2>5, <2>7, <2>8, EmitSound
  <2> QED
    BY <2>3, <2>5, <2>9 DEF P, Q, new
<1> QED
  BY <1>1, <1>2

\* It goes on soundly (update_pinch).
LEMMA UpdatePinchSound ==
    ASSUME NEW T \in Nat, NEW h \in HearType, NEW s, Sound(T, h, s), NEW ts \in 0..T
    PROVE  LET r == UpdatePinch(s, ts) IN
           Sound(T, h, r) /\ r.tracks = s.tracks /\ r.tap = s.tap
<1>1. CASE s.pinch = None
  BY <1>1 DEF UpdatePinch
<1>2. CASE s.pinch # None /\ ~BothTracked(s)
  BY <1>2, EndPinchSound DEF UpdatePinch
<1>3. CASE s.pinch # None /\ BothTracked(s)
  <2> DEFINE P == Gesture("PanUpdate", s.pinch, ts)
             Q == [Gesture("PinchUpdate", s.pinch, ts) EXCEPT !.distance = Spread(s)]
  <2>1. s \in Work(T) /\ s.pinch \in PointerIds \X PointerIds /\ s.pinch \in Groups
    BY <1>3, WorkParts, OpensTyped DEF Sound
  <2>2. Spread(s) \in Nat
    BY <1>3, <2>1, SpreadTyped
  <2>3. UpdatePinch(s, ts) = Emit(s, <<P, Q>>)
    BY <1>3 DEF UpdatePinch
  <2>4. /\ P \in Telling(T) /\ P.type = "PanUpdate" /\ P.ids = s.pinch
        /\ Q \in Telling(T) /\ Q.type = "PinchUpdate" /\ Q.ids = s.pinch
    BY <2>1, <2>2 DEF Gesture, Telling, GestureTypes
  <2> HIDE DEF P, Q
  <2>6. \E r \in HearType : TRUE
    BY SomeHearing
  <2>7. <<P, Q>> \in Seq(Telling(T))
    BY <2>4, <2>6, TellTwo
  <2>8. ASSUME s.ok PROVE Fits(s, Heard(Heard(h, s.out), <<P, Q>>))
    <3> DEFINE r == Heard(h, s.out)
               rp == Hear(r, P)
               q == Hear(rp, Q)
    <3>1. Fits(s, r) /\ r \in HearType
      BY <2>8 DEF Sound, Fits
    <3> HIDE DEF r
    <3>2. Heard(r, <<P, Q>>) = q
      BY <2>4, <3>1, TellTwo
    <3>3. Pan(s.pinch) \in r.open /\ Pinch(s.pinch) \in r.open /\ r.orderly
      BY <2>1, <3>1 DEF Fits, Matches
    <3>4. rp \in HearType /\ rp.orderly /\ rp.taps = r.taps /\ rp.open = r.open
      BY <2>4, <3>1, <3>3, PanTold
    <3> HIDE DEF rp
    <3>6. q \in HearType /\ q.orderly /\ q.taps = r.taps /\ q.open = r.open
      BY <2>4, <3>3, <3>4, PinchTold
    <3> HIDE DEF q
    <3>8. Fits(s, q)
      BY <3>1, <3>6 DEF Fits
    <3> QED
      BY <3>2, <3>8 DEF r
  <2>9. /\ Sound(T, h, Emit(s, <<P, Q>>))
        /\ Emit(s, <<P, Q>>).tracks = s.tracks /\ Emit(s, <<P, Q>>).tap = s.tap
    BY <2>1, <2>7, <2>8, EmitSound
  <2> QED
    BY <2>3, <2>9
<1> QED
  BY <1>1, <1>2, <1>3

\* A track moves, and may begin to drag.
LEMMA TrackFits ==
    ASSUME NEW T \in Nat, NEW s \in Work(T), NEW r, Fits(s, r), NEW i \in TrackSlots, s.tracks[i] # None,
           NEW new \in Work(T), NEW q \in HearType, new.tap = s.tap, new.pinch = s.pinch,
           \A j \in TrackSlots : j # i => new.tracks[j] = s.tracks[j],
           new.tracks[i] # None, new.tracks[i].id = s.tracks[i].id,
           new.tracks[i].pinched = s.tracks[i].pinched,
           s.tracks[i].dragging => new.tracks[i].dragging,
           s.tracks[i].pinched => ~new.tracks[i].dragging,
           q.orderly, q.taps = r.taps,
           q.open = IF new.tracks[i].dragging THEN r.open \cup {Drag(s.tracks[i].id)} ELSE r.open
    PROVE  Fits(new, q)
<1>1. s.tracks[i].id \in PointerIds
  BY TrackParts
<1>2. Apart(new) /\ Absorbed(new)
  BY DEF Fits, Apart, Absorbed
<1>3. Paired(new)
  <2>1. \A id : InPair(s, id) => InPair(new, id)
    BY DEF InPair
  <2> QED
    BY <2>1 DEF Paired, Fits
<1>4. Matches(new, q.open)
  <2>1. ASSUME NEW c \in PointerIds PROVE Drag(c) \in q.open <=> Drags(new, c)
    <3>1. Drag(c) \in q.open <=> Drag(c) \in r.open \/ (new.tracks[i].dragging /\ c = s.tracks[i].id)
      BY OpensDiffer
    <3>2. Drag(c) \in r.open <=> Drags(s, c)
      BY DEF Fits, Matches
    <3>3. Drags(new, c) <=> Drags(s, c) \/ (new.tracks[i].dragging /\ c = s.tracks[i].id)
      BY DEF Drags
    <3> QED
      BY <3>1, <3>2, <3>3
  <2>2. ASSUME NEW p \in PointerIds \X PointerIds
        PROVE  (Pan(p) \in q.open <=> new.pinch = p) /\ (Pinch(p) \in q.open <=> new.pinch = p)
    BY OpensDiffer DEF Fits, Matches
  <2>3. ASSUME NEW x \in q.open
        PROVE  \/ \E c \in PointerIds : x = Drag(c)
               \/ \E p \in PointerIds \X PointerIds : x = Pan(p) \/ x = Pinch(p)
    BY <1>1 DEF Fits, Matches
  <2> QED
    BY <2>1, <2>2, <2>3 DEF Matches
<1> QED
  BY <1>2, <1>3, <1>4 DEF Fits

\* A pointer that goes, and is in no pinch any more, leaves nothing behind.
LEMMA ReleaseFits ==
    ASSUME NEW T \in Nat, NEW s \in Work(T), NEW r, Fits(s, r), NEW i \in TrackSlots, s.tracks[i] # None,
           s.pinch # None => s.pinch[1] # s.tracks[i].id /\ s.pinch[2] # s.tracks[i].id,
           NEW new \in Work(T), NEW q \in HearType, new.pinch = s.pinch,
           \A j \in TrackSlots : j # i => new.tracks[j] = s.tracks[j],
           new.tracks[i] = None,
           q.orderly, q.open = r.open \ {Drag(s.tracks[i].id)},
           new.tap # None => q.taps >= 1
    PROVE  Fits(new, q)
<1>1. s.tracks[i].id \in PointerIds
  BY TrackParts
<1>2. Apart(new) /\ Absorbed(new)
  BY DEF Fits, Apart, Absorbed
<1>3. Paired(new)
  <2>1. \A id : InPair(s, id) /\ id # s.tracks[i].id => InPair(new, id)
    BY DEF InPair
  <2> QED
    BY <2>1 DEF Paired, Fits
<1>4. Matches(new, q.open)
  <2>1. ASSUME NEW c \in PointerIds PROVE Drag(c) \in q.open <=> Drags(new, c)
    <3>1. Drag(c) \in q.open <=> Drag(c) \in r.open /\ c # s.tracks[i].id
      BY OpensDiffer
    <3>2. Drag(c) \in r.open <=> Drags(s, c)
      BY DEF Fits, Matches
    <3>3. Drags(new, c) <=> Drags(s, c) /\ c # s.tracks[i].id
      BY DEF Drags, Fits, Apart
    <3> QED
      BY <3>1, <3>2, <3>3
  <2>2. ASSUME NEW p \in PointerIds \X PointerIds
        PROVE  (Pan(p) \in q.open <=> new.pinch = p) /\ (Pinch(p) \in q.open <=> new.pinch = p)
    BY OpensDiffer DEF Fits, Matches
  <2>3. ASSUME NEW x \in q.open
        PROVE  \/ \E c \in PointerIds : x = Drag(c)
               \/ \E p \in PointerIds \X PointerIds : x = Pan(p) \/ x = Pinch(p)
    BY <1>1 DEF Fits, Matches
  <2> QED
    BY <2>1, <2>2, <2>3 DEF Matches
<1> QED
  BY <1>2, <1>3, <1>4 DEF Fits

\* A pointer that is new begins nothing yet.
LEMMA ArrivalFits ==
    ASSUME NEW T \in Nat, NEW s \in Work(T), NEW r, Fits(s, r), NEW i \in TrackSlots, s.tracks[i] = None,
           NEW new \in Work(T), new.tap = s.tap, new.pinch = s.pinch,
           \A j \in TrackSlots : j # i => new.tracks[j] = s.tracks[j],
           new.tracks[i] # None, ~new.tracks[i].pinched, ~new.tracks[i].dragging,
           \A j \in TrackSlots : s.tracks[j] # None => s.tracks[j].id # new.tracks[i].id
    PROVE  Fits(new, r)
<1>1. Apart(new) /\ Absorbed(new)
  BY DEF Fits, Apart, Absorbed
<1>2. Paired(new)
  <2>1. \A id : InPair(s, id) => InPair(new, id)
    BY DEF InPair
  <2> QED
    BY <2>1 DEF Paired, Fits
<1>3. \A c \in PointerIds : Drags(new, c) <=> Drags(s, c)
  BY DEF Drags
<1>4. Matches(new, r.open)
  BY <1>3 DEF Matches, Fits
<1> QED
  BY <1>1, <1>2, <1>4 DEF Fits

\* A Down is sound (process_down).
LEMMA ProcessDownSound ==
    ASSUME NEW T \in 0..MaxTime, NEW h \in HearType, NEW s, Sound(T, h, s),
           NEW e, e.id \in PointerIds, e.x \in Positions, e.ts \in 0..T
    PROVE  Sound(T, h, ProcessDown(s, e))
<1>0. T \in Nat /\ e.ts \in 0..MaxTime /\ s \in Work(T)
  BY BoundAssumption DEF Sound
<1>1. CASE Tracked(s, e.id) \/ FreeSlots(s) = {}
  BY <1>0, <1>1, FailsSound DEF ProcessDown
<1>2. CASE ~Tracked(s, e.id) /\ FreeSlots(s) # {}
  <2> DEFINE i == Min(FreeSlots(s))
             t == [id |-> e.id, start |-> e.x, x |-> e.x, down |-> e.ts,
                   dragging |-> FALSE, longPressed |-> FALSE, pinched |-> FALSE]
             new == [s EXCEPT !.tracks[i] = t]
  <2>1. i \in TrackSlots /\ s.tracks[i] = None
    <3>1. FreeSlots(s) \in SUBSET Nat
      BY DEF FreeSlots, TrackSlots
    <3>2. PICK m \in FreeSlots(s) : \A d \in FreeSlots(s) : m <= d
      BY <1>2, <3>1, Least
    <3>3. i \in FreeSlots(s)
      BY <3>2 DEF Min
    <3> QED
      BY <3>3 DEF FreeSlots
  <2> HIDE DEF i
  <2>2. t \in TrackType /\ t.id = e.id /\ ~t.pinched /\ ~t.dragging /\ t # None
    <3>1. t \in TrackType
      BY <1>0 DEF TrackType
    <3> QED
      BY <3>1, NoneAssumption
  <2> HIDE DEF t
  <2>3. /\ new \in Work(T) /\ new.tracks = [s.tracks EXCEPT ![i] = t] /\ new.pinch = s.pinch
        /\ new.tap = s.tap /\ new.out = s.out /\ new.ok = s.ok
    BY <1>0, <2>1, <2>2 DEF Work
  <2>4. ProcessDown(s, e) = BeginPinchIfPossible(new, e.ts)
    BY <1>2 DEF ProcessDown, i, t
  <2> HIDE DEF new
  <2>5. new.tracks[i] = t /\ \A j \in TrackSlots : j # i => new.tracks[j] = s.tracks[j]
    BY <1>0, <2>1, <2>3 DEF Work
  <2>6. \A j \in TrackSlots : s.tracks[j] # None => s.tracks[j].id # new.tracks[i].id
    BY <1>2, <2>2, <2>5 DEF Tracked, Holds
  <2>7. ASSUME s.ok PROVE Fits(new, Heard(h, new.out))
    <3>1. Fits(s, Heard(h, s.out))
      BY <2>7 DEF Sound
    <3> QED
      BY <1>0, <2>1, <2>2, <2>3, <2>5, <2>6, <3>1, ArrivalFits
  <2>8. Sound(T, h, new)
    BY <2>3, <2>7 DEF Sound
  <2> QED
    BY <1>0, <2>4, <2>8, BeginPinchSound
<1> QED
  BY <1>1, <1>2

\* A Move is (process_move).
LEMMA ProcessMoveSound ==
    ASSUME NEW T \in 0..MaxTime, NEW h \in HearType, NEW s, Sound(T, h, s), s.ok,
           NEW e, e.id \in PointerIds, e.x \in Positions, e.ts \in 0..T
    PROVE  Sound(T, h, ProcessMove(s, e))
<1>0. T \in Nat /\ s \in Work(T)
  BY BoundAssumption DEF Sound
<1>1. CASE ~Tracked(s, e.id)
  BY <1>0, <1>1, FailsSound DEF ProcessMove
<1>2. CASE Tracked(s, e.id)
  <2> DEFINE i == SlotOf(s, e.id)
             t == s.tracks[i]
             begins == /\ ~t.pinched /\ ~t.dragging /\ ~t.longPressed
                       /\ Distance(t.start, e.x) > MovementThreshold
             drags  == ~t.pinched /\ (t.dragging \/ begins)
             u == [t EXCEPT !.x = e.x, !.dragging = t.dragging \/ begins]
             new == [s EXCEPT !.tracks[i] = [@ EXCEPT !.x = e.x, !.dragging = t.dragging \/ begins]]
             B == Gesture("DragBegin", <<e.id>>, e.ts)
             U == Gesture("DragUpdate", <<e.id>>, e.ts)
             told == When(begins, B) \o When(drags, U)
             moved == Emit(new, told)
  <2>1. i \in TrackSlots /\ t # None /\ t.id = e.id /\ t \in TrackType
    BY <1>0, <1>2, SlotHolds
  <2>2. ProcessMove(s, e) = IF s.pinch # None THEN UpdatePinch(moved, e.ts)
                            ELSE BeginPinchIfPossible(moved, e.ts)
    BY <1>2 DEF ProcessMove
  <2> HIDE DEF i
  <2>3. t.pinched \in BOOLEAN /\ t.dragging \in BOOLEAN /\ begins \in BOOLEAN /\ drags \in BOOLEAN
    BY <2>1 DEF TrackType
  <2>4. t.pinched => ~t.dragging
    BY <2>1 DEF Sound, Fits, Absorbed
  <2>5. drags <=> (t.dragging \/ begins)
    BY <2>4
  <2>6. begins => ~t.pinched /\ ~t.dragging
    OBVIOUS
  <2> HIDE DEF begins, drags
  <2>7. /\ u \in TrackType /\ u # None /\ u.id = e.id /\ u.pinched = t.pinched
        /\ u.dragging <=> drags
    <3>1. u \in TrackType
      BY <2>1, <2>3 DEF TrackType
    <3> QED
      BY <2>1, <2>3, <2>5, <3>1, NoneAssumption DEF TrackType
  <2>8. new = [s EXCEPT !.tracks[i] = u]
    BY <1>0 DEF Work
  <2> HIDE DEF u
  <2>9. /\ [s EXCEPT !.tracks[i] = u] \in Work(T)
    BY <1>0, <2>1, <2>7 DEF Work
  <2>10. /\ new \in Work(T) /\ new.tracks = [s.tracks EXCEPT ![i] = u] /\ new.pinch = s.pinch
         /\ new.tap = s.tap /\ new.out = s.out /\ new.ok = s.ok
    BY <1>0, <2>8, <2>9 DEF Work
  <2>11. new.tracks[i] = u /\ \A j \in TrackSlots : j # i => new.tracks[j] = s.tracks[j]
    BY <1>0, <2>1, <2>10 DEF Work
  <2> HIDE DEF new
  <2>12. /\ B \in Telling(T) /\ B.type = "DragBegin" /\ B.ids = <<e.id>>
         /\ U \in Telling(T) /\ U.type = "DragUpdate" /\ U.ids = <<e.id>>
    BY <1>0, OpensTyped, GestureTyped DEF GestureTypes, Beginnings
  <2> HIDE DEF B, U
  <2> DEFINE r == Heard(h, s.out)
             rb == IF begins THEN Hear(r, B) ELSE r
             q == IF drags THEN Hear(rb, U) ELSE rb
  <2>13. r \in HearType /\ Fits(s, r)
    BY DEF Sound, Fits
  <2> HIDE DEF r
  <2>14. When(begins, B) \in Seq(Telling(T)) /\ Heard(r, When(begins, B)) = rb
    BY <1>0, <2>3, <2>12, <2>13, TellFirst
  <2>15. told \in Seq(Telling(T)) /\ Heard(r, told) = q
    <3> DEFINE W == When(begins, B)
    <3>1. W \in Seq(Telling(T)) /\ Heard(r, W) = rb
      BY <2>14
    <3> HIDE DEF W, rb
    <3>2. W \o When(drags, U) \in Seq(Telling(T))
          /\ Heard(r, W \o When(drags, U)) = IF drags THEN Hear(Heard(r, W), U) ELSE Heard(r, W)
      BY <1>0, <2>3, <2>12, <2>13, <3>1, TellOne DEF ToldWhen
    <3> QED
      BY <3>1, <3>2 DEF W
  <2>16. Drag(e.id) \in r.open <=> t.dragging
    BY <2>1, <2>13 DEF Fits, Matches, Drags, Apart
  <2>17. /\ rb \in HearType /\ rb.orderly /\ rb.taps = r.taps
         /\ rb.open = IF begins THEN r.open \cup {Drag(e.id)} ELSE r.open
    <3>1. CASE begins
      BY <1>0, <3>1, <2>6, <2>12, <2>13, <2>16, DragTold DEF Fits
    <3>2. CASE ~begins
      BY <3>2, <2>13 DEF Fits
    <3> QED
      BY <3>1, <3>2
  <2> HIDE DEF rb
  <2>18. /\ q \in HearType /\ q.orderly /\ q.taps = r.taps
         /\ q.open = IF drags THEN r.open \cup {Drag(e.id)} ELSE r.open
    <3>1. CASE drags
      <4>1. Drag(e.id) \in rb.open
        BY <2>5, <2>16, <2>17, <3>1
      <4>2. q \in HearType /\ q.orderly /\ q.taps = r.taps /\ q.open = rb.open
        BY <1>0, <3>1, <4>1, <2>12, <2>17, DragTold
      <4>3. rb.open = r.open \cup {Drag(e.id)}
        BY <2>5, <2>16, <2>17, <3>1
      <4> QED
        BY <3>1, <4>2, <4>3
    <3>2. CASE ~drags
      BY <3>2, <2>5, <2>17
    <3> QED
      BY <3>1, <3>2
  <2> HIDE DEF q
  <2>19. Fits(new, q)
    <3>1. /\ new.tracks[i] # None /\ new.tracks[i].id = s.tracks[i].id
          /\ new.tracks[i].pinched = s.tracks[i].pinched
          /\ s.tracks[i].dragging => new.tracks[i].dragging
          /\ s.tracks[i].pinched => ~new.tracks[i].dragging
      BY <2>1, <2>4, <2>5, <2>6, <2>7, <2>11
    <3>2. q.open = IF new.tracks[i].dragging THEN r.open \cup {Drag(s.tracks[i].id)} ELSE r.open
      BY <2>1, <2>7, <2>11, <2>18
    <3>3. s.tracks[i] # None /\ i \in TrackSlots /\ (\A j \in TrackSlots : j # i => new.tracks[j] = s.tracks[j])
          /\ q \in HearType /\ q.orderly /\ q.taps = r.taps
      BY <2>1, <2>11, <2>18
    <3> HIDE DEF t
    <3> QED
      <4>1. new \in Work(T) /\ new.tap = s.tap /\ new.pinch = s.pinch
        BY <2>10
      <4> QED
        BY <1>0, <4>1, <2>13, <3>1, <3>2, <3>3, TrackFits
  <2>20. Sound(T, h, moved)
    <3> HIDE DEF told
    <3> QED
      BY <1>0, <2>10, <2>15, <2>19, EmitSound DEF r
  <2> HIDE DEF moved
  <2> QED
    BY <1>0, <2>2, <2>20, UpdatePinchSound, BeginPinchSound
<1> QED
  BY <1>1, <1>2

\* A track that only moves changes nothing that anybody was told.
MovedTo(s, i, x) == [s EXCEPT !.tracks[i].x = x]

\* To move a track keeps a working state sound.
LEMMA MovedSound ==
    ASSUME NEW T \in Nat, NEW h \in HearType, NEW s, Sound(T, h, s), NEW i \in TrackSlots,
           s.tracks[i] # None, NEW x \in Positions
    PROVE  LET r == MovedTo(s, i, x) IN
           /\ Sound(T, h, r) /\ r.pinch = s.pinch /\ r.tap = s.tap /\ r.out = s.out /\ r.ok = s.ok
           /\ \A j \in TrackSlots : j # i => r.tracks[j] = s.tracks[j]
           /\ r.tracks[i] # None /\ r.tracks[i].id = s.tracks[i].id
           /\ r.tracks[i].pinched = s.tracks[i].pinched /\ r.tracks[i].dragging = s.tracks[i].dragging
<1> DEFINE u == [s.tracks[i] EXCEPT !.x = x]
           r == MovedTo(s, i, x)
<1>1. s \in Work(T) /\ s.tracks[i] \in TrackType
  BY TrackParts DEF Sound
<1>2. /\ u \in TrackType /\ u.id = s.tracks[i].id /\ u.pinched = s.tracks[i].pinched
      /\ u.dragging = s.tracks[i].dragging /\ u # None
  <2>1. u \in TrackType
    BY <1>1 DEF TrackType
  <2> QED
    BY <1>1, <2>1, NoneAssumption DEF TrackType
<1>3. r = [s EXCEPT !.tracks[i] = u]
  BY <1>1 DEF Work, MovedTo
<1> HIDE DEF u, r
<1>4. [s EXCEPT !.tracks[i] = u] \in Work(T)
  BY <1>1, <1>2 DEF Work
<1>5. /\ r \in Work(T) /\ r.pinch = s.pinch /\ r.tap = s.tap /\ r.out = s.out /\ r.ok = s.ok
      /\ r.tracks = [s.tracks EXCEPT ![i] = u]
  BY <1>1, <1>3, <1>4 DEF Work
<1>6. r.tracks[i] = u /\ \A j \in TrackSlots : j # i => r.tracks[j] = s.tracks[j]
  BY <1>1, <1>5 DEF Work
<1>7. /\ r.tracks[i] # None /\ r.tracks[i].id = s.tracks[i].id
      /\ r.tracks[i].pinched = s.tracks[i].pinched /\ r.tracks[i].dragging = s.tracks[i].dragging
  BY <1>2, <1>6
<1>8. ASSUME s.ok PROVE Fits(r, Heard(h, r.out))
  <2> DEFINE q == Heard(h, s.out)
  <2>1. Fits(s, q) /\ q \in HearType /\ q.orderly /\ Matches(s, q.open) /\ Absorbed(s)
    BY <1>8 DEF Sound, Fits
  <2> HIDE DEF q
  <2>2. s.tracks[i].id \in PointerIds /\ s.tracks[i].dragging \in BOOLEAN
    BY <1>1, TrackParts
  <2>3. Drag(s.tracks[i].id) \in q.open <=> Drags(s, s.tracks[i].id)
    BY <2>1, <2>2 DEF Matches
  <2>4. s.tracks[i].dragging => Drags(s, s.tracks[i].id)
    BY DEF Drags
  <2>5. q.open = IF r.tracks[i].dragging THEN q.open \cup {Drag(s.tracks[i].id)} ELSE q.open
    BY <2>2, <2>3, <2>4, <1>7
  <2>6. s.tracks[i].pinched => ~r.tracks[i].dragging
    BY <2>1, <1>7 DEF Absorbed
  <2>7. r \in Work(T) /\ r.tap = s.tap /\ r.pinch = s.pinch
        /\ (\A j \in TrackSlots : j # i => r.tracks[j] = s.tracks[j])
        /\ (s.tracks[i].dragging => r.tracks[i].dragging)
    BY <1>5, <1>6, <1>7
  <2>8. Fits(r, q)
    BY <1>1, <1>7, <2>1, <2>5, <2>6, <2>7, TrackFits
  <2> QED
    BY <1>5, <2>8 DEF q
<1>9. Sound(T, h, r)
  BY <1>5, <1>8 DEF Sound
<1> QED
  BY <1>5, <1>6, <1>7, <1>9 DEF r

\* A pointer of the pinch, and no other, is marked as one.
LEMMA InPinchIsMarked ==
    ASSUME NEW T \in Nat, NEW s \in Work(T), NEW r, Fits(s, r), NEW i \in TrackSlots,
           s.tracks[i] # None, InPinch(s, s.tracks[i].id)
    PROVE  s.tracks[i].pinched
<1>1. InPair(s, s.tracks[i].id)
  BY DEF InPinch, Fits, Paired
<1> QED
  BY <1>1 DEF InPair, Fits, Apart

\* A pointer that is in no pinch is neither of its two.
LEMMA NotInPinch ==
    ASSUME NEW s, NEW id, ~InPinch(s, id)
    PROVE  s.pinch # None => s.pinch[1] # id /\ s.pinch[2] # id
  BY DEF InPinch

\* What an Up tells of a pointer that is in no pinch: process_up, whose
\* conditions are given.
UpTold(id, ts, presses, drags, dragging, swipes, taps, doubles) ==
    When(presses, Gesture("LongPress", <<id>>, ts))
      \o When(drags /\ ~dragging, Gesture("DragBegin", <<id>>, ts))
      \o When(drags, Gesture("DragEnd", <<id>>, ts))
      \o When(swipes, Gesture("Swipe", <<id>>, ts))
      \o When(taps, Gesture("Tap", <<id>>, ts))
      \o When(doubles, Gesture("DoubleTap", <<id>>, ts))

\* What a consumer that remembered r has of it.
UpHeard(T, r, id, told, taps, doubles) ==
    LET q == Heard(r, told) IN
    /\ told \in Seq(Telling(T))
    /\ q \in HearType /\ q.orderly /\ q.open = r.open \ {Drag(id)}
    /\ ~taps => q.taps = r.taps
    /\ taps /\ ~doubles => q.taps >= 1

\* An Up tells of its pointer in order: the drag ends, a double tap follows a
\* tap.
LEMMA UpIsTold ==
    ASSUME NEW T \in Nat, NEW r \in HearType, r.orderly, NEW id \in PointerIds, NEW ts \in 0..T,
           NEW presses \in BOOLEAN, NEW drags \in BOOLEAN, NEW dragging \in BOOLEAN,
           NEW swipes \in BOOLEAN, NEW taps \in BOOLEAN, NEW doubles \in BOOLEAN,
           dragging => drags, Drag(id) \in r.open <=> dragging,
           doubles => taps /\ r.taps >= 1
    PROVE  UpHeard(T, r, id, UpTold(id, ts, presses, drags, dragging, swipes, taps, doubles),
                   taps, doubles)
<1> DEFINE Press == Gesture("LongPress", <<id>>, ts)
           Begin == Gesture("DragBegin", <<id>>, ts)
           End   == Gesture("DragEnd", <<id>>, ts)
           Swipe == Gesture("Swipe", <<id>>, ts)
           Tap   == Gesture("Tap", <<id>>, ts)
           Twice == Gesture("DoubleTap", <<id>>, ts)
           t1 == When(presses, Press)
           t2 == t1 \o When(drags /\ ~dragging, Begin)
           t3 == t2 \o When(drags, End)
           t4 == t3 \o When(swipes, Swipe)
           t5 == t4 \o When(taps, Tap)
           t6 == t5 \o When(doubles, Twice)
           q1 == IF presses THEN Hear(r, Press) ELSE r
           q2 == IF drags /\ ~dragging THEN Hear(q1, Begin) ELSE q1
           q3 == IF drags THEN Hear(q2, End) ELSE q2
           q4 == IF swipes THEN Hear(q3, Swipe) ELSE q3
           q5 == IF taps THEN Hear(q4, Tap) ELSE q4
           q6 == IF doubles THEN Hear(q5, Twice) ELSE q5
<1>1. <<id>> \in Groups
  BY OpensTyped
<1>2. /\ Press \in Telling(T) /\ Press.type = "LongPress"
      /\ Begin \in Telling(T) /\ Begin.type = "DragBegin" /\ Begin.ids = <<id>>
      /\ End \in Telling(T) /\ End.type = "DragEnd" /\ End.ids = <<id>>
      /\ Swipe \in Telling(T) /\ Swipe.type = "Swipe"
      /\ Tap \in Telling(T) /\ Tap.type = "Tap"
      /\ Twice \in Telling(T) /\ Twice.type = "DoubleTap"
  BY <1>1, GestureTyped DEF GestureTypes, Beginnings, Endings
<1> SUFFICES /\ t6 \in Seq(Telling(T))
             /\ LET q == Heard(r, t6) IN
                /\ q \in HearType /\ q.orderly /\ q.open = r.open \ {Drag(id)}
                /\ ~taps => q.taps = r.taps
                /\ taps /\ ~doubles => q.taps >= 1
  BY DEF UpTold, UpHeard
<1> HIDE DEF Press, Begin, End, Swipe, Tap, Twice, t1, t2, t3, t4, t5, t6, q1, q2, q3, q4, q5, q6
<1>3. t1 \in Seq(Telling(T)) /\ Heard(r, t1) = q1
  BY <1>2, TellFirst DEF t1, q1
<1>4. t2 \in Seq(Telling(T)) /\ Heard(r, t2) = q2
  <2> DEFINE begins == drags /\ ~dragging
  <2>1. begins \in BOOLEAN /\ t2 = t1 \o When(begins, Begin) /\ q2 = IF begins THEN Hear(q1, Begin) ELSE q1
    BY DEF t2, q2
  <2> HIDE DEF begins
  <2>2. ToldWhen(T, r, t1, begins, Begin)
    BY <1>2, <1>3, <2>1, TellOne
  <2> QED
    BY <1>3, <2>1, <2>2 DEF ToldWhen
<1>5. t3 \in Seq(Telling(T)) /\ Heard(r, t3) = q3
  <2>1. ToldWhen(T, r, t2, drags, End)
    BY <1>2, <1>4, TellOne
  <2> QED
    BY <1>4, <2>1 DEF ToldWhen, t3, q3
<1>6. t4 \in Seq(Telling(T)) /\ Heard(r, t4) = q4
  <2>1. ToldWhen(T, r, t3, swipes, Swipe)
    BY <1>2, <1>5, TellOne
  <2> QED
    BY <1>5, <2>1 DEF ToldWhen, t4, q4
<1>7. t5 \in Seq(Telling(T)) /\ Heard(r, t5) = q5
  <2>1. ToldWhen(T, r, t4, taps, Tap)
    BY <1>2, <1>6, TellOne
  <2> QED
    BY <1>6, <2>1 DEF ToldWhen, t5, q5
<1>8. t6 \in Seq(Telling(T)) /\ Heard(r, t6) = q6
  <2>1. ToldWhen(T, r, t5, doubles, Twice)
    BY <1>2, <1>7, TellOne
  <2> QED
    BY <1>7, <2>1 DEF ToldWhen, t6, q6
<1>9. q1 = r
  BY <1>2, HearPress DEF q1
<1>10. /\ q2 \in HearType /\ q2.orderly /\ q2.taps = r.taps
       /\ q2.open = IF drags THEN r.open \cup {Drag(id)} ELSE r.open
  <2>1. CASE drags /\ ~dragging
    <3>1. q2 = Hear(r, Begin) /\ Drag(id) \notin r.open
      BY <1>9, <2>1 DEF q2
    <3> QED
      BY <2>1, <3>1, <1>2, DragTold
  <2>2. CASE ~(drags /\ ~dragging)
    <3>1. q2 = r
      BY <1>9, <2>2 DEF q2
    <3> QED
      BY <2>2, <3>1
  <2> QED
    BY <2>1, <2>2
<1>11. /\ q3 \in HearType /\ q3.orderly /\ q3.taps = r.taps /\ q3.open = r.open \ {Drag(id)}
  <2>1. CASE drags
    <3>1. q3 = Hear(q2, End) /\ Drag(id) \in q2.open
      BY <1>10, <2>1 DEF q3
    <3>2. q3 \in HearType /\ q3.orderly /\ q3.taps = q2.taps /\ q3.open = q2.open \ {Drag(id)}
      BY <3>1, <1>2, <1>10, DragTold
    <3> QED
      BY <2>1, <3>2, <1>10
  <2>2. CASE ~drags
    <3>1. q3 = q2
      BY <2>2 DEF q3
    <3> QED
      BY <2>2, <3>1, <1>10
  <2> QED
    BY <2>1, <2>2
<1>12. q4 = q3
  BY <1>2, HearPress DEF q4
<1>13. /\ q5 \in HearType /\ q5.orderly /\ q5.open = r.open \ {Drag(id)}
       /\ ~taps => q5.taps = r.taps
       /\ taps => q5.taps >= 1
       /\ doubles => q5.taps = 2
  <2>1. CASE taps
    <3>1. q5 = Hear(q3, Tap)
      BY <1>12, <2>1 DEF q5
    <3>2. q5 \in HearType /\ q5.orderly /\ q5.open = q3.open
          /\ q5.taps = IF q3.taps < 2 THEN q3.taps + 1 ELSE 2
      BY <3>1, <1>2, <1>11, HearTap
    <3>3. q3.taps \in 0..2
      BY <1>11 DEF HearType
    <3> QED
      BY <2>1, <3>2, <3>3, <1>11
  <2>2. CASE ~taps
    <3>1. q5 = q3
      BY <1>12, <2>2 DEF q5
    <3> QED
      BY <2>2, <3>1, <1>11
  <2> QED
    BY <2>1, <2>2
<1>14. /\ q6 \in HearType /\ q6.orderly /\ q6.open = r.open \ {Drag(id)}
       /\ ~taps => q6.taps = r.taps
       /\ taps /\ ~doubles => q6.taps >= 1
  <2>1. CASE doubles
    <3>1. q6 = Hear(q5, Twice)
      BY <2>1 DEF q6
    <3> QED
      BY <2>1, <3>1, <1>2, <1>13, HearDoubleTap
  <2>2. CASE ~doubles
    <3>1. q6 = q5
      BY <2>2 DEF q6
    <3> QED
      BY <2>2, <3>1, <1>13
  <2> QED
    BY <2>1, <2>2
<1> QED
  BY <1>8, <1>14

\* An Up is sound (process_up).
LEMMA ProcessUpSound ==
    ASSUME NEW T \in 0..MaxTime, NEW h \in HearType, NEW s, Sound(T, h, s), s.ok,
           NEW e, e.id \in PointerIds, e.x \in Positions, e.ts \in 0..T
    PROVE  Sound(T, h, ProcessUp(s, e))
<1>0. T \in Nat /\ s \in Work(T) /\ e.ts \in 0..MaxTime
  BY BoundAssumption DEF Sound
<1>1. CASE ~Tracked(s, e.id)
  BY <1>0, <1>1, FailsSound DEF ProcessUp
<1>2. CASE Tracked(s, e.id)
  <2> DEFINE i         == SlotOf(s, e.id)
             t         == s.tracks[i]
             moved     == [s EXCEPT !.tracks[i].x = e.x]
             parted    == IF InPinch(s, e.id)
                          THEN EndPinch(UpdatePinch(moved, e.ts), e.ts, FALSE)
                          ELSE moved
             released  == [parted EXCEPT !.tracks[i] = None]
             duration  == e.ts - t.down
             travelled == Distance(t.start, e.x)
             presses   == /\ ~t.dragging /\ ~t.longPressed
                          /\ travelled <= MovementThreshold /\ duration >= LongPressDuration
             drags     == t.dragging \/ travelled > MovementThreshold
             swipes    == drags /\ duration > 0 /\ travelled >= MinimumSwipeVelocity * duration
             taps      == /\ ~drags /\ ~t.longPressed /\ ~presses
                          /\ duration <= MaximumTapDuration
             doubles   == taps /\ CompletesDoubleTap(s, e)
             G(type)   == Gesture(type, <<e.id>>, e.ts)
             told      == When(presses, G("LongPress"))
                            \o When(drags /\ ~t.dragging, G("DragBegin")) \o When(drags, G("DragEnd"))
                            \o When(swipes, G("Swipe")) \o When(taps, G("Tap"))
                            \o When(doubles, G("DoubleTap"))
             new       == [released EXCEPT !.tap = IF doubles THEN None
                                                   ELSE IF taps THEN [x |-> e.x, ts |-> e.ts] ELSE @]
  <2>1. i \in TrackSlots /\ t # None /\ t.id = e.id /\ t \in TrackType
    BY <1>0, <1>2, SlotHolds
  <2>2. ProcessUp(s, e) = IF t.pinched THEN released ELSE Emit(new, told)
    BY <1>2 DEF ProcessUp
  <2> HIDE DEF i
  <2>3. /\ Sound(T, h, moved) /\ moved.pinch = s.pinch /\ moved.tap = s.tap
        /\ moved.out = s.out
        /\ moved.tracks[i] # None /\ moved.tracks[i].id = e.id
        /\ moved.tracks[i].pinched = t.pinched /\ moved.tracks[i].dragging = t.dragging
    <3> DEFINE m == MovedTo(s, i, e.x)
    <3>1. /\ Sound(T, h, m) /\ m.pinch = s.pinch /\ m.tap = s.tap /\ m.out = s.out
          /\ m.tracks[i] # None /\ m.tracks[i].id = s.tracks[i].id
          /\ m.tracks[i].pinched = s.tracks[i].pinched /\ m.tracks[i].dragging = s.tracks[i].dragging
      BY <1>0, <2>1, MovedSound
    <3> HIDE DEF m
    <3> QED
      BY <2>1, <3>1 DEF m, MovedTo
  <2>4. t.pinched \in BOOLEAN /\ t.dragging \in BOOLEAN
    BY <2>1 DEF TrackType
  <2> HIDE DEF moved
  <2>5. CASE t.pinched
    <3>1. Sound(T, h, parted) /\ parted.tracks = moved.tracks
      <4>1. CASE InPinch(s, e.id)
        <5>1. Sound(T, h, UpdatePinch(moved, e.ts)) /\ UpdatePinch(moved, e.ts).tracks = moved.tracks
          BY <1>0, <2>3, UpdatePinchSound
        <5> QED
          BY <1>0, <4>1, <5>1, EndPinchSound
      <4>2. CASE ~InPinch(s, e.id)
        BY <4>2, <2>3
      <4> QED
        BY <4>1, <4>2
    <3>2. parted.pinch # None => parted.pinch[1] # e.id /\ parted.pinch[2] # e.id
      <4>1. CASE InPinch(s, e.id)
        <5>1. Sound(T, h, UpdatePinch(moved, e.ts))
          BY <1>0, <2>3, UpdatePinchSound
        <5>2. parted.pinch = None
          BY <1>0, <4>1, <5>1, EndPinchSound
        <5> QED
          BY <5>2
      <4>2. CASE ~InPinch(s, e.id)
        <5>1. parted = moved
          BY <4>2
        <5> QED
          BY <5>1, <4>2, <2>3, NotInPinch
      <4> QED
        BY <4>1, <4>2
    <3> HIDE DEF parted
    <3>3. parted \in Work(T)
      BY <3>1 DEF Sound
    <3>4. /\ released \in Work(T) /\ released.pinch = parted.pinch /\ released.tap = parted.tap
          /\ released.out = parted.out /\ released.ok = parted.ok
          /\ released.tracks = [parted.tracks EXCEPT ![i] = None]
      BY <2>1, <3>3 DEF Work
    <3>5. released.tracks[i] = None /\ \A j \in TrackSlots : j # i => released.tracks[j] = parted.tracks[j]
      BY <2>1, <3>3, <3>4 DEF Work
    <3> HIDE DEF released
    <3>6. ASSUME released.ok PROVE Fits(released, Heard(h, released.out))
      <4> DEFINE q == Heard(h, parted.out)
      <4>1. Fits(parted, q)
        BY <3>1, <3>4, <3>6 DEF Sound
      <4> HIDE DEF q
      <4>2. /\ parted.tracks[i] # None /\ parted.tracks[i].id = e.id /\ ~parted.tracks[i].dragging
            /\ q \in HearType /\ q.orderly
        BY <4>1, <2>1, <2>3, <2>5, <3>1 DEF Fits, Absorbed
      <4>3. Drag(e.id) \notin q.open
        BY <4>1, <4>2, <2>1 DEF Fits, Matches, Drags, Apart
      <4>4. q.open = q.open \ {Drag(parted.tracks[i].id)}
        BY <4>2, <4>3
      <4>5. released.tap # None => q.taps >= 1
        BY <3>4, <4>1 DEF Fits
      <4>6. parted.pinch # None => parted.pinch[1] # parted.tracks[i].id /\ parted.pinch[2] # parted.tracks[i].id
        BY <3>2, <4>2
      <4>7. released \in Work(T) /\ released.pinch = parted.pinch
        BY <3>4
      <4>8. Fits(released, q)
        BY <1>0, <2>1, <3>3, <3>5, <4>1, <4>2, <4>4, <4>5, <4>6, <4>7, ReleaseFits
      <4> QED
        BY <4>8, <3>4 DEF q
    <3>7. Sound(T, h, released)
      BY <3>1, <3>4, <3>6 DEF Sound
    <3> QED
      BY <2>2, <2>5, <3>7
  <2>6. CASE ~t.pinched
    <3> DEFINE r == Heard(h, s.out)
               q == Heard(r, told)
    <3>1. Fits(s, r) /\ r \in HearType /\ r.orderly
      BY DEF Sound, Fits
    <3>2. ~InPinch(s, e.id)
      <4> HIDE DEF r
      <4> QED
        BY <1>0, <2>1, <2>6, <3>1, InPinchIsMarked
    <3>3. parted = moved
      BY <3>2
    <3> HIDE DEF r, parted
    <3>4. moved \in Work(T)
      BY <2>3 DEF Sound
    <3>5. /\ released \in Work(T) /\ released.pinch = s.pinch /\ released.tap = s.tap
          /\ released.out = s.out
          /\ released.tracks = [moved.tracks EXCEPT ![i] = None]
      BY <2>1, <2>3, <3>3, <3>4 DEF Work
    <3>a. drags \in BOOLEAN /\ (t.dragging => drags)
      BY <2>4
    <3>b. taps \in BOOLEAN /\ doubles \in BOOLEAN /\ (doubles => taps)
      OBVIOUS
    <3>c. doubles => s.tap # None
      BY DEF CompletesDoubleTap
    <3>d. presses \in BOOLEAN /\ swipes \in BOOLEAN
      BY <2>4
    <3> HIDE DEF presses, drags, swipes, taps, doubles, released
    <3>6. Drag(e.id) \in r.open <=> t.dragging
      BY <2>1, <3>1 DEF Fits, Matches, Drags, Apart
    <3>7. doubles => taps /\ r.taps >= 1
      BY <3>1, <3>b, <3>c DEF Fits
    <3>8. /\ told \in Seq(Telling(T))
          /\ q \in HearType /\ q.orderly /\ q.open = r.open \ {Drag(e.id)}
          /\ ~taps => q.taps = r.taps
          /\ taps /\ ~doubles => q.taps >= 1
      <4>1. told = UpTold(e.id, e.ts, presses, drags, t.dragging, swipes, taps, doubles)
        BY DEF UpTold
      <4> HIDE DEF told
      <4> QED
        <5>1. \A p, d, g, w, a, b \in BOOLEAN :
                 /\ g => d
                 /\ Drag(e.id) \in r.open <=> g
                 /\ b => a /\ r.taps >= 1
                 => UpHeard(T, r, e.id, UpTold(e.id, e.ts, p, d, g, w, a, b), a, b)
          BY <1>0, <3>1, UpIsTold
        <5>2. UpHeard(T, r, e.id, UpTold(e.id, e.ts, presses, drags, t.dragging, swipes, taps, doubles),
                      taps, doubles)
          BY ONLY <2>4, <3>6, <3>7, <3>a, <3>b, <3>d, <5>1, ZenonT(30)
        <5> QED
          BY <4>1, <5>2 DEF UpHeard
    <3> DEFINE tap == IF doubles THEN None ELSE IF taps THEN [x |-> e.x, ts |-> e.ts] ELSE s.tap
    <3>9. tap \in TapType \cup {None}
      BY <1>0, WorkParts DEF TapType
    <3>10. new = [released EXCEPT !.tap = tap]
      BY <3>5 DEF Work
    <3> HIDE DEF told, q
    <3>11. tap # None => q.taps >= 1
      BY <3>8, <3>1, <3>b DEF Fits
    <3> HIDE DEF tap, new
    <3>12. /\ new \in Work(T) /\ new.pinch = s.pinch /\ new.tap = tap
           /\ new.out = s.out
           /\ new.tracks = [moved.tracks EXCEPT ![i] = None]
      BY <3>5, <3>9, <3>10 DEF Work
    <3>13. new.tracks[i] = None /\ \A j \in TrackSlots : j # i => new.tracks[j] = moved.tracks[j]
      BY <2>1, <3>4, <3>12 DEF Work
    <3>14. Fits(moved, r)
      <4>1. moved.ok
        BY <1>0, <2>1 DEF moved, MovedTo, Work
      <4> QED
        BY <4>1, <2>3 DEF Sound, r
    <3>15. moved.pinch # None => moved.pinch[1] # moved.tracks[i].id /\ moved.pinch[2] # moved.tracks[i].id
      BY <2>3, <3>2, NotInPinch
    <3>16. /\ q.open = r.open \ {Drag(moved.tracks[i].id)} /\ moved.tracks[i] # None
           /\ new.tap # None => q.taps >= 1
           /\ new \in Work(T) /\ new.pinch = moved.pinch /\ q \in HearType /\ q.orderly
      BY <2>3, <3>8, <3>11, <3>12
    <3>17. Fits(new, q)
      BY <1>0, <2>1, <3>4, <3>13, <3>14, <3>15, <3>16, ReleaseFits
    <3>18. Fits(new, Heard(Heard(h, new.out), told))
      BY <3>12, <3>17 DEF q, r
    <3>19. Sound(T, h, Emit(new, told))
      BY <1>0, <3>8, <3>16, <3>18, EmitSound
    <3> QED
      BY <2>2, <2>6, <3>19
  <2> QED
    BY <2>5, <2>6
<1> QED
  BY <1>1, <1>2

\* A Cancel is (process_cancel).
LEMMA ProcessCancelSound ==
    ASSUME NEW T \in 0..MaxTime, NEW h \in HearType, NEW s, Sound(T, h, s), s.ok,
           NEW e, e.id \in PointerIds, e.x \in Positions, e.ts \in 0..T
    PROVE  Sound(T, h, ProcessCancel(s, e))
<1>0. T \in Nat /\ s \in Work(T)
  BY BoundAssumption DEF Sound
<1>1. CASE ~Tracked(s, e.id)
  BY <1>0, <1>1, FailsSound DEF ProcessCancel
<1>2. CASE Tracked(s, e.id)
  <2> DEFINE i      == SlotOf(s, e.id)
             t      == s.tracks[i]
             moved  == MovedTo(s, i, e.x)
             parted == IF InPinch(s, e.id) THEN EndPinch(moved, e.ts, TRUE) ELSE moved
             new    == [parted EXCEPT !.tracks[i] = None, !.tap = None]
             E      == Cancelled(Gesture("DragEnd", <<e.id>>, e.ts))
             C      == Cancelled(Gesture("Cancelled", <<e.id>>, e.ts))
             told   == When(t.dragging, E) \o <<C>>
  <2>1. i \in TrackSlots /\ t # None /\ t.id = e.id /\ t \in TrackType
    BY <1>0, <1>2, SlotHolds
  <2>2. ProcessCancel(s, e) = Emit(new, told)
    BY <1>2 DEF ProcessCancel, MovedTo
  <2> HIDE DEF i
  <2>3. /\ Sound(T, h, moved) /\ moved.pinch = s.pinch
        /\ moved.tracks[i] # None /\ moved.tracks[i].id = e.id
        /\ moved.tracks[i].dragging = t.dragging
    BY <1>0, <2>1, MovedSound
  <2>4. t.dragging \in BOOLEAN
    BY <2>1 DEF TrackType
  <2> HIDE DEF moved
  <2>5. /\ Sound(T, h, parted) /\ parted.tracks = moved.tracks
        /\ parted.pinch # None => parted.pinch[1] # e.id /\ parted.pinch[2] # e.id
    <3>1. CASE InPinch(s, e.id)
      BY <1>0, <2>3, <3>1, EndPinchSound
    <3>2. CASE ~InPinch(s, e.id)
      <4>1. parted = moved
        BY <3>2
      <4> QED
        BY <4>1, <3>2, <2>3, NotInPinch
    <3> QED
      BY <3>1, <3>2
  <2> HIDE DEF parted
  <2>6. parted \in Work(T)
    BY <2>5 DEF Sound
  <2>7. /\ new \in Work(T) /\ new.pinch = parted.pinch /\ new.tap = None
        /\ new.out = parted.out /\ new.ok = parted.ok
        /\ new.tracks = [parted.tracks EXCEPT ![i] = None]
    BY <2>1, <2>6 DEF Work
  <2>8. new.tracks[i] = None /\ \A j \in TrackSlots : j # i => new.tracks[j] = parted.tracks[j]
    BY <2>1, <2>6, <2>7 DEF Work
  <2> HIDE DEF new
  <2>9. <<e.id>> \in Groups
    BY OpensTyped
  <2>10. /\ E \in Telling(T) /\ E.type = "DragEnd" /\ E.ids = <<e.id>>
         /\ C \in Telling(T) /\ C.type = "Cancelled" /\ C.ids = <<e.id>>
    BY <1>0, <2>9 DEF Cancelled, Gesture, Telling, GestureTypes, Endings
  <2> HIDE DEF E, C
  <2>11. PICK some \in HearType : TRUE
    BY SomeHearing
  <2>12. When(t.dragging, E) \in Seq(Telling(T))
    BY <1>0, <2>4, <2>10, <2>11, TellFirst
  <2>13. told \in Seq(Telling(T))
    <3> DEFINE W == When(t.dragging, E)
    <3>1. W \in Seq(Telling(T))
      BY <2>12
    <3> HIDE DEF W
    <3>2. W \o <<C>> \in Seq(Telling(T))
      BY <1>0, <2>10, <2>11, <3>1, TellMore
    <3> QED
      BY <3>2 DEF W
  <2>14. ASSUME new.ok PROVE Fits(new, Heard(Heard(h, new.out), told))
    <3> DEFINE r == Heard(h, parted.out)
               re == IF t.dragging THEN Hear(r, E) ELSE r
               q == Hear(re, C)
    <3>1. Fits(parted, r) /\ r \in HearType /\ r.orderly
      BY <2>5, <2>7, <2>14 DEF Sound, Fits
    <3> HIDE DEF r
    <3>2. Heard(r, When(t.dragging, E)) = re
      BY <1>0, <2>4, <2>10, <3>1, TellFirst
    <3>3. Heard(r, told) = q
      <4> DEFINE W == When(t.dragging, E)
      <4>1. W \in Seq(Telling(T)) /\ Heard(r, W) = re
        BY <2>12, <3>2
      <4> HIDE DEF W, re
      <4>2. Heard(r, W \o <<C>>) = Hear(Heard(r, W), C)
        BY <1>0, <2>10, <3>1, <4>1, TellMore
      <4> QED
        BY <4>1, <4>2 DEF W
    <3>4. parted.tracks[i] # None /\ parted.tracks[i].id = e.id /\ parted.tracks[i].dragging = t.dragging
      BY <2>3, <2>5
    <3>5. Drag(e.id) \in r.open <=> t.dragging
      BY <2>1, <3>1, <3>4 DEF Fits, Matches, Drags, Apart
    <3>6. re \in HearType /\ re.orderly /\ re.open = r.open \ {Drag(e.id)}
      <4>1. CASE t.dragging
        BY <1>0, <4>1, <2>10, <3>1, <3>5, DragTold
      <4>2. CASE ~t.dragging
        BY <4>2, <3>1, <3>5
      <4> QED
        BY <4>1, <4>2
    <3> HIDE DEF re
    <3>7. q \in HearType /\ q.orderly /\ q.open = r.open \ {Drag(e.id)}
      <4>1. /\ q \in HearType /\ q.taps = 0 /\ (q.orderly <=> re.orderly)
            /\ q.open = re.open \ {<<"Drag", C.ids>>}
        BY <2>10, <3>6, HearCancelled
      <4>2. <<"Drag", C.ids>> = Drag(e.id)
        BY <2>10 DEF Drag
      <4> QED
        BY <4>1, <4>2, <3>6
    <3> HIDE DEF q
    <3>8. /\ q.open = r.open \ {Drag(parted.tracks[i].id)} /\ parted.tracks[i] # None
          /\ new.tap # None => q.taps >= 1
          /\ new \in Work(T) /\ new.pinch = parted.pinch
          /\ parted.pinch # None => parted.pinch[1] # parted.tracks[i].id /\ parted.pinch[2] # parted.tracks[i].id
      BY <2>5, <2>7, <3>4, <3>7
    <3>9. Fits(new, q)
      BY <1>0, <2>1, <2>6, <2>8, <3>1, <3>7, <3>8, ReleaseFits
    <3> QED
      BY <2>7, <3>3, <3>9 DEF r
  <2>15. Sound(T, h, Emit(new, told))
    <3>1. new \in Work(T)
      BY <2>7
    <3> HIDE DEF told
    <3> QED
      BY <1>0, <3>1, <2>13, <2>14, EmitSound
  <2> QED
    BY <2>2, <2>15
<1> QED
  BY <1>1, <1>2

-----------------------------------------------------------------------------
(* What is told of several slots, on a reset, of pointers held long.       *)

\* One turn of ForSlots: what slot n adds to what was told.
OfSlot(s, gesture, n) == [gesture EXCEPT !.ids = <<s.tracks[n].id>>]

\* One turn of the loop.
TellSlot(s, slots, gesture, told, n) == told \o When(n \in slots, OfSlot(s, gesture, n))

\* A slot outside the set adds nothing, one of the set a well typed gesture.
LEMMA TellSlotTyped ==
    ASSUME NEW T \in Nat, NEW s \in Work(T), NEW slots \in SUBSET TrackSlots,
           \A n \in slots : s.tracks[n] # None,
           NEW gesture \in Telling(T),
           NEW told \in Seq(Telling(T)), NEW n \in TrackSlots, NEW r \in HearType
    PROVE  /\ TellSlot(s, slots, gesture, told, n) \in Seq(Telling(T))
           /\ n \in slots => /\ OfSlot(s, gesture, n) \in Telling(T)
                            /\ Heard(r, TellSlot(s, slots, gesture, told, n))
                                 = Hear(Heard(r, told), OfSlot(s, gesture, n))
           /\ n \notin slots => TellSlot(s, slots, gesture, told, n) = told
<1> DEFINE g == OfSlot(s, gesture, n)
<1>1. CASE n \in slots
  <2>1. g \in Telling(T)
    BY <1>1, TrackParts, OpensTyped DEF Telling, OfSlot
  <2> HIDE DEF g
  <2>2. told \o <<g>> \in Seq(Telling(T)) /\ Heard(r, told \o <<g>>) = Hear(Heard(r, told), g)
    BY <2>1, TellMore
  <2>3. TellSlot(s, slots, gesture, told, n) = told \o <<g>>
    BY <1>1 DEF TellSlot, When, g
  <2> QED
    BY <1>1, <2>1, <2>2, <2>3 DEF g
<1>2. CASE n \notin slots
  <2>1. When(n \in slots, g) = <<>>
    BY <1>2 DEF When
  <2>2. told \o <<>> = told
    BY ConcatEmptySeq
  <2>3. TellSlot(s, slots, gesture, told, n) = told
    BY <2>1, <2>2 DEF TellSlot
  <2> QED
    BY <1>2, <2>3
<1> QED
  BY <1>1, <1>2

\* Everything that can be told by time T.
Tellings(T) == Seq(Telling(T))

\* ForSlots is a loop over the slots.
LEMMA ForSlotsLoop ==
    ASSUME NEW T \in Nat, NEW s \in Work(T), NEW slots \in SUBSET TrackSlots,
           \A n \in slots : s.tracks[n] # None,
           NEW gesture \in Telling(T)
    PROVE  \E f \in [0..MaxTracks -> Seq(Telling(T))] :
              /\ f[0] = <<>> /\ f[MaxTracks] = ForSlots(s, slots, gesture)
              /\ \A n \in TrackSlots : f[n] = TellSlot(s, slots, gesture, f[n - 1], n)
<1> DEFINE S == Tellings(T)
           step == [n \in TrackSlots |-> [k \in S |-> TellSlot(s, slots, gesture, k, n)]]
           Tells(g) == g = [n \in 0..MaxTracks |->
                          IF n = 0 THEN <<>>
                          ELSE g[n - 1] \o When(n \in slots, [gesture EXCEPT !.ids = <<s.tracks[n].id>>])]
           after == CHOOSE g : Tells(g)
<1>1. MaxTracks \in Nat /\ TrackSlots = 1..MaxTracks
  BY RecognizerAssumption DEF TrackSlots
<1>2. \A n \in TrackSlots, k \in S : TellSlot(s, slots, gesture, k, n) \in S
  <2>1. PICK r \in HearType : TRUE
    BY SomeHearing
  <2> QED
    BY <2>1, TellSlotTyped DEF Tellings
<1>3. step \in [1..MaxTracks -> [S -> S]]
  BY <1>1, <1>2
<1>4. \A n \in TrackSlots, k \in S : step[n][k] = TellSlot(s, slots, gesture, k, n)
  OBVIOUS
<1>5. ForSlots(s, slots, gesture) = after[MaxTracks]
  BY DEF ForSlots
<1>a. <<>> \in S
  BY DEF Tellings
<1>b. MaxTracks \in Nat
  BY <1>1
<1> HIDE DEF step
<1>6. PICK f \in [0..MaxTracks -> S] :
         f[0] = <<>> /\ \A n \in 1..MaxTracks : f[n] = step[n][f[n - 1]]
  BY <1>a, <1>b, <1>3, LoopExists
<1>7. \A n \in TrackSlots : f[n] = TellSlot(s, slots, gesture, f[n - 1], n)
  <2> SUFFICES ASSUME NEW n \in TrackSlots PROVE f[n] = TellSlot(s, slots, gesture, f[n - 1], n)
    OBVIOUS
  <2>1. n - 1 \in 0..MaxTracks
    BY <1>1
  <2> QED
    BY <2>1, <1>1, <1>4, <1>6
<1>8. \A n \in 0..MaxTracks :
         f[n] = IF n = 0 THEN <<>>
                ELSE f[n - 1] \o When(n \in slots, [gesture EXCEPT !.ids = <<s.tracks[n].id>>])
  <2>1. \A n \in 0..MaxTracks : n # 0 => n \in TrackSlots
    BY <1>1
  <2> QED
    BY <2>1, <1>6, <1>7 DEF TellSlot, OfSlot
<1>9. f = [n \in 0..MaxTracks |-> f[n]]
  BY <1>6
<1>10. f = [n \in 0..MaxTracks |->
              IF n = 0 THEN <<>>
              ELSE f[n - 1] \o When(n \in slots, [gesture EXCEPT !.ids = <<s.tracks[n].id>>])]
  BY <1>8, <1>9
<1>11. Tells(f)
  BY <1>10
<1> HIDE DEF after
<1>12. Tells(after)
  BY <1>11 DEF after
<1>13. /\ after[0] = <<>>
       /\ \A n \in TrackSlots : after[n] = TellSlot(s, slots, gesture, after[n - 1], n)
  <2>1. \A n \in 0..MaxTracks :
          after[n] = IF n = 0 THEN <<>>
                     ELSE after[n - 1] \o When(n \in slots, [gesture EXCEPT !.ids = <<s.tracks[n].id>>])
    BY <1>12
  <2>2. 0 \in 0..MaxTracks /\ \A n \in TrackSlots : n \in 0..MaxTracks /\ n # 0
    BY <1>1
  <2> QED
    BY <2>1, <2>2 DEF TellSlot, OfSlot
<1> HIDE DEF Tells
<1> DEFINE Same == {n \in 0..MaxTracks : after[n] = f[n]}
<1>14. 0 \in Same
  BY <1>1, <1>6, <1>13
<1>15. ASSUME NEW n \in 1..MaxTracks, n - 1 \in Same PROVE n \in Same
  <2>1. after[n] = f[n]
    BY <1>1, <1>7, <1>13, <1>15
  <2> QED
    BY <1>1, <2>1
<1>16. MaxTracks \in Same
  <2>1. Same \in SUBSET (0..MaxTracks)
    OBVIOUS
  <2> HIDE DEF Same
  <2>2. Same = 0..MaxTracks
    <3>1. \A n \in 1..MaxTracks : n - 1 \in Same => n \in Same
      BY <1>15
    <3> QED
      BY <2>1, <3>1, <1>1, <1>14, IntervalInduction
  <2> QED
    BY <2>2, <1>1
<1> QED
  BY <1>5, <1>6, <1>7, <1>16 DEF S, Tellings

\* The consumer stops believing in the drags of some slots, and in nothing
\* else.
EndsDrags(s, slots, r, q) ==
    /\ q \in HearType /\ (q.orderly <=> r.orderly)
    /\ \A x : x \in q.open <=> x \in r.open /\ \A k \in slots : x # Drag(s.tracks[k].id)

\* What is told of each slot is well typed; a long press changes nothing of
\* what the consumer believes, a cancellation ends the drag of its pointer.
LEMMA ForSlotsHeard ==
    ASSUME NEW T \in Nat, NEW s \in Work(T), NEW slots \in SUBSET TrackSlots,
           \A n \in slots : s.tracks[n] # None,
           NEW gesture \in Telling(T),
           NEW r \in HearType
    PROVE  /\ ForSlots(s, slots, gesture) \in Seq(Telling(T))
           /\ gesture.type = "LongPress" => Heard(r, ForSlots(s, slots, gesture)) = r
           /\ gesture.type = "Cancelled" => EndsDrags(s, slots, r, Heard(r, ForSlots(s, slots, gesture)))
<1>0. \A told \in Seq(Telling(T)), n \in TrackSlots :
         /\ n \in slots => Heard(r, TellSlot(s, slots, gesture, told, n))
                             = Hear(Heard(r, told), OfSlot(s, gesture, n))
         /\ n \notin slots => TellSlot(s, slots, gesture, told, n) = told
  <2> SUFFICES ASSUME NEW told \in Seq(Telling(T)), NEW n \in TrackSlots
               PROVE  /\ n \in slots => Heard(r, TellSlot(s, slots, gesture, told, n))
                                          = Hear(Heard(r, told), OfSlot(s, gesture, n))
                      /\ n \notin slots => TellSlot(s, slots, gesture, told, n) = told
    OBVIOUS
  <2>1. ASSUME n \notin slots PROVE TellSlot(s, slots, gesture, told, n) = told
    <3>1. When(n \in slots, OfSlot(s, gesture, n)) = <<>>
      BY <2>1 DEF When
    <3>2. told \o <<>> = told
      BY ConcatEmptySeq
    <3> QED
      BY <3>1, <3>2 DEF TellSlot
  <2>2. ASSUME n \in slots
        PROVE  Heard(r, TellSlot(s, slots, gesture, told, n)) = Hear(Heard(r, told), OfSlot(s, gesture, n))
    BY <2>2, TellSlotTyped
  <2> QED
    BY <2>1, <2>2
<1>1. PICK f \in [0..MaxTracks -> Seq(Telling(T))] :
         /\ f[0] = <<>> /\ f[MaxTracks] = ForSlots(s, slots, gesture)
         /\ \A n \in TrackSlots : f[n] = TellSlot(s, slots, gesture, f[n - 1], n)
  BY ForSlotsLoop
<1>2. MaxTracks \in Nat /\ MaxTracks \in 0..MaxTracks /\ TrackSlots = 1..MaxTracks
  BY RecognizerAssumption DEF TrackSlots
<1>3. Heard(r, f[0]) = r
  BY <1>1, HeardNothing
<1>4. \A n \in TrackSlots :
         /\ n - 1 \in 0..MaxTracks /\ f[n - 1] \in Seq(Telling(T))
         /\ n \in slots => Heard(r, f[n]) = Hear(Heard(r, f[n - 1]), OfSlot(s, gesture, n))
         /\ n \notin slots => f[n] = f[n - 1]
  <2> SUFFICES ASSUME NEW n \in TrackSlots
               PROVE  /\ n - 1 \in 0..MaxTracks /\ f[n - 1] \in Seq(Telling(T))
                      /\ n \in slots => Heard(r, f[n]) =
                            Hear(Heard(r, f[n - 1]), OfSlot(s, gesture, n))
                      /\ n \notin slots => f[n] = f[n - 1]
    OBVIOUS
  <2>1. n - 1 \in 0..MaxTracks /\ f[n - 1] \in Seq(Telling(T))
    BY <1>1, <1>2
  <2>2. f[n] = TellSlot(s, slots, gesture, f[n - 1], n)
    BY <1>1
  <2> QED
    BY <2>1, <2>2, <1>0
<1>5. ForSlots(s, slots, gesture) \in Seq(Telling(T))
  BY <1>1, <1>2
<1>6. ASSUME gesture.type = "LongPress"
      PROVE  Heard(r, f[MaxTracks]) = r
  <2> DEFINE A == {n \in 0..MaxTracks : Heard(r, f[n]) = r}
  <2>1. 0 \in A
    BY <1>2, <1>3
  <2>2. ASSUME NEW n \in 1..MaxTracks, n - 1 \in A PROVE n \in A
    <3>1. ASSUME n \in slots PROVE Heard(r, f[n]) = r
      <4>1. Heard(r, f[n]) = Hear(r, OfSlot(s, gesture, n))
        <5>1. n \in TrackSlots /\ Heard(r, f[n - 1]) = r
          BY <1>2, <2>2
        <5> QED
          BY <1>4, <3>1, <5>1
      <4> DEFINE g == OfSlot(s, gesture, n)
      <4>2. g.type = "LongPress"
        BY <1>6 DEF Telling, OfSlot
      <4> HIDE DEF g
      <4>3. Hear(r, g) = r
        BY <4>2, HearPress
      <4> QED
        BY <4>1, <4>3 DEF g
    <3>2. ASSUME n \notin slots PROVE Heard(r, f[n]) = r
      <4>1. f[n] = f[n - 1]
        BY <1>2, <1>4, <3>2
      <4> QED
        BY <2>2, <4>1
    <3>3. n \in 0..MaxTracks
      BY <1>2
    <3> QED
      BY <3>1, <3>2, <3>3
  <2>3. \A n \in 1..MaxTracks : n - 1 \in A => n \in A
    BY <2>2
  <2>4. A \in SUBSET (0..MaxTracks)
    OBVIOUS
  <2>5. MaxTracks \in A
    <3> HIDE DEF A
    <3>1. A = 0..MaxTracks
      BY <1>2, <2>1, <2>3, <2>4, IntervalInduction
    <3> QED
      BY <1>2, <3>1
  <2> QED
    BY <2>5
<1>7. ASSUME gesture.type = "Cancelled"
      PROVE  EndsDrags(s, slots, r, Heard(r, f[MaxTracks]))
  <2> DEFINE Ends(n) == LET q == Heard(r, f[n]) IN
                        /\ q \in HearType /\ (q.orderly <=> r.orderly)
                        /\ \A x : x \in q.open <=>
                              x \in r.open /\ \A k \in slots : k <= n => x # Drag(s.tracks[k].id)
             A == {n \in 0..MaxTracks : Ends(n)}
  <2>1. Ends(0)
    <3>1. \A k \in slots : ~(k <= 0)
      BY <1>2
    <3> QED
      BY <1>3, <3>1
  <2>2. ASSUME NEW n \in 1..MaxTracks, Ends(n - 1) PROVE Ends(n)
    <3>1. CASE n \in slots
      <4> DEFINE p == Heard(r, f[n - 1])
                 g == OfSlot(s, gesture, n)
                 q == Heard(r, f[n])
      <4>1. q = Hear(p, g)
        BY <1>2, <1>4, <3>1
      <4>2. g.type = "Cancelled" /\ g.ids = <<s.tracks[n].id>>
        BY <1>7 DEF Telling, OfSlot
      <4>3. p \in HearType /\ (p.orderly <=> r.orderly)
            /\ \A x : x \in p.open <=> x \in r.open /\ \A k \in slots : k <= n - 1 => x # Drag(s.tracks[k].id)
        BY <2>2
      <4> HIDE DEF p, g, q
      <4>4. q \in HearType /\ (q.orderly <=> p.orderly) /\ q.open = p.open \ {<<"Drag", g.ids>>}
        BY <4>1, <4>2, <4>3, HearCancelled
      <4>5. <<"Drag", g.ids>> = Drag(s.tracks[n].id)
        BY <4>2 DEF Drag
      <4>6. \A k \in slots : k <= n <=> k <= n - 1 \/ k = n
        BY <1>2
      <4>7. \A x : x \in q.open <=>
               x \in r.open /\ \A k \in slots : k <= n => x # Drag(s.tracks[k].id)
        BY <3>1, <4>3, <4>4, <4>5, <4>6
      <4> QED
        BY <4>3, <4>4, <4>7 DEF q
    <3>2. CASE n \notin slots
      <4>1. f[n] = f[n - 1]
        BY <1>2, <1>4, <3>2
      <4>2. \A k \in slots : k <= n <=> k <= n - 1
        BY <1>2, <3>2
      <4> QED
        BY <2>2, <4>1, <4>2
    <3> QED
      BY <3>1, <3>2
  <2> HIDE DEF Ends
  <2>3. 0 \in A /\ \A n \in 1..MaxTracks : n - 1 \in A => n \in A
    BY <1>2, <2>1, <2>2
  <2>4. A \in SUBSET (0..MaxTracks)
    OBVIOUS
  <2>5. MaxTracks \in A
    <3> HIDE DEF A
    <3>1. A = 0..MaxTracks
      BY <1>2, <2>3, <2>4, IntervalInduction
    <3> QED
      BY <1>2, <3>1
  <2>6. Ends(MaxTracks)
    BY <2>5
  <2>7. \A k \in slots : k <= MaxTracks
    BY <1>2
  <2> QED
    BY <2>6, <2>7 DEF Ends, EndsDrags
<1> QED
  BY <1>1, <1>5, <1>6, <1>7

\* A working state whose tracks have the same pointers doing the same fits
\* what the consumer believes as well.
LEMMA SameFits ==
    ASSUME NEW T \in Nat, NEW s \in Work(T), NEW r, Fits(s, r),
           NEW new \in Work(T), new.tap = s.tap, new.pinch = s.pinch,
           \A i \in TrackSlots :
              /\ s.tracks[i] = None => new.tracks[i] = None
              /\ s.tracks[i] # None => /\ new.tracks[i] # None
                                       /\ new.tracks[i].id = s.tracks[i].id
                                       /\ new.tracks[i].pinched = s.tracks[i].pinched
                                       /\ new.tracks[i].dragging = s.tracks[i].dragging
    PROVE  Fits(new, r)
<1>1. Apart(new)
  BY DEF Fits, Apart
<1>2. Absorbed(new)
  BY DEF Fits, Absorbed
<1>3. Paired(new)
  BY DEF Fits, Paired, InPair
<1>4. \A a : Drags(new, a) <=> Drags(s, a)
  BY DEF Drags
<1>5. Matches(new, r.open)
  BY <1>4 DEF Fits, Matches
<1> QED
  BY <1>1, <1>2, <1>3, <1>5 DEF Fits

\* Looking for long presses keeps the working state sound.
LEMMA RecognizeLongPressesSound ==
    ASSUME NEW T \in 0..MaxTime, NEW h \in HearType, NEW s, Sound(T, h, s), NEW ts \in 0..T
    PROVE  Sound(T, h, RecognizeLongPresses(s, ts))
<1> DEFINE pressed == {i \in TrackSlots :
                        LET t == s.tracks[i] IN
                        /\ t # None
                        /\ ~t.dragging /\ ~t.longPressed /\ ~t.pinched
                        /\ ts - t.down >= LongPressDuration
                        /\ Distance(t.start, t.x) <= MovementThreshold}
           after == [i \in TrackSlots |->
                       IF i \in pressed THEN [s.tracks[i] EXCEPT !.longPressed = TRUE] ELSE s.tracks[i]]
           new == [s EXCEPT !.tracks = after]
           G == Gesture("LongPress", <<>>, ts)
           told == ForSlots(s, pressed, G)
<1>0. T \in Nat /\ s \in Work(T)
  BY BoundAssumption DEF Sound
<1>1. RecognizeLongPresses(s, ts) = Emit(new, told)
  BY DEF RecognizeLongPresses
<1>2. pressed \in SUBSET TrackSlots /\ \A n \in pressed : s.tracks[n] # None
  OBVIOUS
<1> HIDE DEF pressed
<1>3. G \in Telling(T) /\ G.type = "LongPress"
  BY <1>0 DEF Gesture, Telling, GestureTypes, Groups
<1> HIDE DEF G
<1>4. after \in [TrackSlots -> TrackType \cup {None}]
  <2> SUFFICES ASSUME NEW i \in TrackSlots PROVE after[i] \in TrackType \cup {None}
    BY DEF after
  <2>1. CASE i \in pressed
    <3>1. s.tracks[i] \in TrackType
      BY <1>0, <1>2, <2>1, TrackParts
    <3>2. [s.tracks[i] EXCEPT !.longPressed = TRUE] \in TrackType
      BY <3>1 DEF TrackType
    <3> QED
      BY <2>1, <3>2
  <2>2. CASE i \notin pressed
    BY <1>0, <2>2 DEF Work
  <2> QED
    BY <2>1, <2>2
<1>5. \A i \in TrackSlots :
         /\ s.tracks[i] = None => after[i] = None
         /\ s.tracks[i] # None => /\ after[i] # None
                                  /\ after[i].id = s.tracks[i].id
                                  /\ after[i].pinched = s.tracks[i].pinched
                                  /\ after[i].dragging = s.tracks[i].dragging
  <2> SUFFICES ASSUME NEW i \in TrackSlots
               PROVE  /\ s.tracks[i] = None => after[i] = None
                      /\ s.tracks[i] # None => /\ after[i] # None
                                               /\ after[i].id = s.tracks[i].id
                                               /\ after[i].pinched = s.tracks[i].pinched
                                               /\ after[i].dragging = s.tracks[i].dragging
    OBVIOUS
  <2>1. CASE i \in pressed
    <3>1. s.tracks[i] \in TrackType /\ s.tracks[i] # None
      BY <1>0, <1>2, <2>1, TrackParts
    <3>2. after[i] = [s.tracks[i] EXCEPT !.longPressed = TRUE]
      BY <2>1
    <3>3. /\ after[i] \in TrackType
          /\ after[i].id = s.tracks[i].id
          /\ after[i].pinched = s.tracks[i].pinched
          /\ after[i].dragging = s.tracks[i].dragging
      BY <3>1, <3>2 DEF TrackType
    <3> QED
      BY <3>1, <3>3, NoneAssumption
  <2>2. CASE i \notin pressed
    BY <2>2
  <2> QED
    BY <2>1, <2>2
<1> HIDE DEF after
<1>6. /\ new \in Work(T) /\ new.pinch = s.pinch /\ new.tap = s.tap
      /\ new.out = s.out /\ new.ok = s.ok /\ new.tracks = after
  BY <1>0, <1>4 DEF Work
<1> HIDE DEF new
<1>7. told \in Seq(Telling(T)) /\ \A r \in HearType : Heard(r, told) = r
  <2>1. ASSUME NEW r \in HearType PROVE told \in Seq(Telling(T)) /\ Heard(r, told) = r
    BY <1>0, <1>2, <1>3, ForSlotsHeard
  <2>2. PICK r \in HearType : TRUE
    BY SomeHearing
  <2> QED
    BY <2>1, <2>2
<1> HIDE DEF told
<1>8. ASSUME new.ok PROVE Fits(new, Heard(Heard(h, new.out), told))
  <2>1. Fits(s, Heard(h, s.out)) /\ Heard(h, s.out) \in HearType
    BY <1>6, <1>8 DEF Sound, Fits
  <2>2. Fits(new, Heard(h, s.out))
    BY <1>0, <1>5, <1>6, <2>1, SameFits
  <2> QED
    BY <1>6, <1>7, <2>1, <2>2
<1>9. Sound(T, h, Emit(new, told))
  BY <1>0, <1>6, <1>7, <1>8, EmitSound
<1> QED
  BY <1>1, <1>9

\* Cancelling every pointer leaves nothing behind: no track, no pinch, and a
\* consumer that believes nothing is going on.
LEMMA CancelTrackedPointersSound ==
    ASSUME NEW T \in 0..MaxTime, NEW h \in HearType, NEW s, Sound(T, h, s), NEW ts \in 0..T
    PROVE  Sound(T, h, [CancelTrackedPointers(s, ts) EXCEPT !.tap = None])
<1> DEFINE parted == EndPinch(s, ts, TRUE)
           new == [parted EXCEPT !.tracks = NoTracks]
           held == TrackSlots \ FreeSlots(s)
           G == Cancelled(Gesture("Cancelled", <<>>, ts))
           told == ForSlots(s, held, G)
           bare == [new EXCEPT !.tap = None]
<1>0. T \in Nat /\ s \in Work(T)
  BY BoundAssumption DEF Sound
<1>1. CancelTrackedPointers(s, ts) = Emit(new, told)
  BY DEF CancelTrackedPointers
<1>2. held \in SUBSET TrackSlots /\ \A n \in TrackSlots : n \in held <=> s.tracks[n] # None
  BY DEF FreeSlots
<1>3. G \in Telling(T) /\ G.type = "Cancelled"
  BY <1>0 DEF Cancelled, Gesture, Telling, GestureTypes, Groups
<1> HIDE DEF G, held
<1>4. Sound(T, h, parted) /\ parted.tracks = s.tracks /\ parted.pinch = None /\ parted \in Work(T)
  <2>1. TRUE \in BOOLEAN
    OBVIOUS
  <2>2. Sound(T, h, parted) /\ parted.tracks = s.tracks /\ parted.pinch = None
    BY <1>0, <2>1, EndPinchSound
  <2> QED
    BY <2>2 DEF Sound
<1> HIDE DEF parted
<1>5. NoTracks \in [TrackSlots -> TrackType \cup {None}] /\ \A i \in TrackSlots : NoTracks[i] = None
  BY DEF NoTracks
<1>6. /\ new \in Work(T) /\ new.tracks = NoTracks /\ new.pinch = None
      /\ new.out = parted.out /\ new.ok = parted.ok
  BY <1>4, <1>5 DEF Work
<1> HIDE DEF new
<1>7. /\ bare \in Work(T) /\ bare.tracks = NoTracks /\ bare.pinch = None /\ bare.tap = None
      /\ bare.out = parted.out /\ bare.ok = parted.ok
  BY <1>6 DEF Work
<1>8. [Emit(new, told) EXCEPT !.tap = None] = Emit(bare, told)
  <2> HIDE DEF told
  <2>1. bare.out = new.out
    BY <1>6, <1>7
  <2>2. CASE Len(new.out) + Len(told) <= MaxGestures
    <3>1. Emit(new, told) = [new EXCEPT !.out = @ \o told] /\ Emit(bare, told) = [bare EXCEPT !.out = @ \o told]
      BY <2>1, <2>2 DEF Emit
    <3> QED
      BY <1>6, <3>1 DEF Work
  <2>3. CASE ~(Len(new.out) + Len(told) <= MaxGestures)
    <3>1. Emit(new, told) = [new EXCEPT !.ok = FALSE] /\ Emit(bare, told) = [bare EXCEPT !.ok = FALSE]
      BY <2>1, <2>3 DEF Emit
    <3> QED
      BY <1>6, <3>1 DEF Work
  <2> QED
    BY <2>2, <2>3
<1> HIDE DEF bare
<1>9. /\ told \in Seq(Telling(T))
      /\ \A r \in HearType : EndsDrags(s, held, r, Heard(r, told))
  <2>1. ASSUME NEW r \in HearType
        PROVE  told \in Seq(Telling(T)) /\ EndsDrags(s, held, r, Heard(r, told))
    BY <1>0, <1>2, <1>3, ForSlotsHeard
  <2>2. PICK r \in HearType : TRUE
    BY SomeHearing
  <2> QED
    BY <2>1, <2>2
<1> HIDE DEF told
<1>10. ASSUME bare.ok PROVE Fits(bare, Heard(Heard(h, bare.out), told))
  <2> DEFINE r == Heard(h, parted.out)
             q == Heard(r, told)
  <2>1. Fits(parted, r) /\ r \in HearType /\ r.orderly
    BY <1>4, <1>7, <1>10 DEF Sound, Fits
  <2> HIDE DEF r
  <2>2. q \in HearType /\ q.orderly
    BY <1>9, <2>1 DEF EndsDrags
  <2>3. \A x : x \notin q.open
    <3> SUFFICES ASSUME NEW x, x \in q.open PROVE FALSE
      OBVIOUS
    <3>1. x \in r.open /\ \A k \in held : x # Drag(s.tracks[k].id)
      BY <1>9, <2>1 DEF EndsDrags
    <3>2. CASE \E a \in PointerIds : x = Drag(a)
      <4>1. PICK a \in PointerIds : x = Drag(a)
        BY <3>2
      <4>2. Drags(parted, a)
        BY <2>1, <3>1, <4>1 DEF Fits, Matches
      <4>3. PICK i \in TrackSlots : s.tracks[i] # None /\ s.tracks[i].id = a
        BY <1>4, <4>2 DEF Drags
      <4> QED
        BY <1>2, <3>1, <4>1, <4>3
    <3>3. CASE \E p \in PointerIds \X PointerIds : x = Pan(p) \/ x = Pinch(p)
      <4>1. PICK p \in PointerIds \X PointerIds : x = Pan(p) \/ x = Pinch(p)
        BY <3>3
      <4>2. parted.pinch = p
        BY <2>1, <3>1, <4>1 DEF Fits, Matches
      <4> QED
        BY <1>4, <4>2, NoneAssumption
    <3> QED
      BY <2>1, <3>1, <3>2, <3>3 DEF Fits, Matches
  <2> HIDE DEF q
  <2>4. Apart(bare) /\ Absorbed(bare) /\ Paired(bare) /\ \A a : ~Drags(bare, a)
    BY <1>5, <1>7 DEF Apart, Absorbed, Paired, Drags
  <2>5. \A p \in PointerIds \X PointerIds : bare.pinch # p
    BY <1>7, NoneAssumption
  <2>6. Matches(bare, q.open)
    BY <2>3, <2>4, <2>5 DEF Matches
  <2>7. Fits(bare, q)
    BY <1>7, <2>2, <2>4, <2>6 DEF Fits
  <2> QED
    BY <1>7, <2>7 DEF q, r
<1>11. Sound(T, h, Emit(bare, told))
  BY <1>0, <1>7, <1>9, <1>10, EmitSound
<1> QED
  BY <1>1, <1>8, <1>11

-----------------------------------------------------------------------------
(* A frame of the recognizer.                                              *)

\* One turn of Processed.
EventTurn(w, e) == IF w.ok THEN ProcessEvent(w, e) ELSE w

\* The working states that can be met while update runs.
SoundStates(T, h) == {w \in Work(T) : Sound(T, h, w)}

\* An event that passed the validation keeps the working state sound.
LEMMA EventTurnSound ==
    ASSUME NEW T \in 0..MaxTime, NEW h \in HearType, NEW w \in SoundStates(T, h),
           NEW e \in RawEvents, e.x # NonFinite, e.ts <= T
    PROVE  EventTurn(w, e) \in SoundStates(T, h)
<1>0. T \in Nat /\ T \in 0..MaxTime /\ Sound(T, h, w)
  BY BoundAssumption DEF SoundStates
<1>1. e.id \in PointerIds /\ e.phase \in Phases /\ e.x \in Positions /\ e.ts \in 0..T
  BY <1>0 DEF RawEvents
<1>2. CASE ~w.ok
  BY <1>2 DEF EventTurn
<1>3. CASE w.ok
  <2>1. CASE e.phase = "Down"
    <3>1. Sound(T, h, ProcessDown(w, e))
      BY <1>0, <1>1, ProcessDownSound
    <3> QED
      BY <1>3, <2>1, <3>1 DEF EventTurn, ProcessEvent, SoundStates, Sound
  <2>2. CASE e.phase = "Move"
    <3>1. Sound(T, h, ProcessMove(w, e))
      BY <1>0, <1>1, <1>3, ProcessMoveSound
    <3> QED
      BY <1>3, <2>2, <3>1 DEF EventTurn, ProcessEvent, SoundStates, Sound
  <2>3. CASE e.phase = "Up"
    <3>1. Sound(T, h, ProcessUp(w, e))
      BY <1>0, <1>1, <1>3, ProcessUpSound
    <3> QED
      BY <1>3, <2>3, <3>1 DEF EventTurn, ProcessEvent, SoundStates, Sound
  <2>4. CASE e.phase = "Cancel"
    <3>1. Sound(T, h, ProcessCancel(w, e))
      BY <1>0, <1>1, <1>3, ProcessCancelSound
    <3> QED
      BY <1>3, <2>4, <3>1 DEF EventTurn, ProcessEvent, SoundStates, Sound
  <2> QED
    BY <1>1, <2>1, <2>2, <2>3, <2>4 DEF Phases
<1> QED
  BY <1>2, <1>3

\* f is the run of Processed from s over a batch of N events.
Runs(f, s, N, events) == f[0] = s /\ \A n \in 1..N : f[n] = EventTurn(f[n - 1], events[n])

\* A loop whose turns stay within a set runs within it.
LEMMA TurnsRun ==
    ASSUME NEW S, NEW s \in S, NEW N \in Nat, NEW events,
           \A n \in 1..N, k \in S : EventTurn(k, events[n]) \in S
    PROVE  \E f \in [0..N -> S] : Runs(f, s, N, events)
<1> DEFINE step == [n \in 1..N |-> [k \in S |-> EventTurn(k, events[n])]]
<1>1. step \in [1..N -> [S -> S]]
  OBVIOUS
<1>2. \A n \in 1..N, k \in S : step[n][k] = EventTurn(k, events[n])
  OBVIOUS
<1> HIDE DEF step
<1>3. PICK f \in [0..N -> S] : f[0] = s /\ \A n \in 1..N : f[n] = step[n][f[n - 1]]
  BY <1>1, LoopExists
<1>4. ASSUME NEW n \in 1..N PROVE f[n] = EventTurn(f[n - 1], events[n])
  <2>1. n - 1 \in 0..N
    OBVIOUS
  <2> QED
    BY <2>1, <1>2, <1>3
<1> QED
  BY <1>3, <1>4 DEF Runs

\* Processing a batch that passed the validation is a loop through sound
\* working states.
LEMMA ProcessedLoop ==
    ASSUME NEW T \in 0..MaxTime, NEW h \in HearType, NEW s \in SoundStates(T, h),
           NEW events \in Seq(RawEvents),
           \A i \in DOMAIN events : events[i].x # NonFinite /\ events[i].ts <= T
    PROVE  \E f \in [0..Len(events) -> SoundStates(T, h)] :
              Runs(f, s, Len(events), events) /\ Processed(s, events) = f[Len(events)]
<1> DEFINE N == Len(events)
           S == SoundStates(T, h)
           Steps(g) == g = [n \in 0..N |->
                              IF n = 0 THEN s
                              ELSE IF g[n - 1].ok THEN ProcessEvent(g[n - 1], events[n]) ELSE g[n - 1]]
           after == CHOOSE g : Steps(g)
<1>1. N \in Nat /\ \A n \in 1..N : events[n] \in RawEvents /\ events[n].x # NonFinite /\ events[n].ts <= T
  BY LenProperties, ElementOfSeq
<1>2. \A n \in 1..N, k \in S : EventTurn(k, events[n]) \in S
  BY <1>1, EventTurnSound
<1>5. Processed(s, events) = after[N]
  BY DEF Processed
<1>s. s \in S
  OBVIOUS
<1> HIDE DEF N, S
<1>6. PICK f \in [0..N -> S] : Runs(f, s, N, events)
  <2> DEFINE E == events
             w == s
  <2> SUFFICES \E f \in [0..N -> S] : Runs(f, w, N, E)
    OBVIOUS
  <2>1. (\A n \in 1..N, k \in S : EventTurn(k, E[n]) \in S) /\ w \in S /\ N \in Nat
    BY <1>1, <1>2, <1>s
  <2> HIDE DEF E, w
  <2> QED
    BY ONLY <2>1, TurnsRun
<1>7. f[0] = s /\ \A n \in 1..N : f[n] = EventTurn(f[n - 1], events[n])
  BY <1>6 DEF Runs
<1>8. \A n \in 0..N : f[n] = IF n = 0 THEN s
                             ELSE IF f[n - 1].ok THEN ProcessEvent(f[n - 1], events[n]) ELSE f[n - 1]
  BY <1>1, <1>6, <1>7 DEF EventTurn
<1>9. f = [n \in 0..N |-> f[n]]
  BY <1>6
<1>10. Steps(f)
  BY <1>8, <1>9
<1> HIDE DEF after
<1>12. Steps(after)
  BY <1>10 DEF after
<1>13. \A n \in 0..N : after[n] = IF n = 0 THEN s
                                  ELSE IF after[n - 1].ok THEN ProcessEvent(after[n - 1], events[n])
                                  ELSE after[n - 1]
  BY <1>12
<1> HIDE DEF Steps
<1> DEFINE Same == {n \in 0..N : after[n] = f[n]}
<1>14. 0 \in Same
  BY <1>1, <1>8, <1>13
<1>15. ASSUME NEW n \in 1..N, n - 1 \in Same PROVE n \in Same
  BY <1>1, <1>8, <1>13, <1>15
<1>16. N \in Same
  <2>1. Same \in SUBSET (0..N) /\ \A n \in 1..N : n - 1 \in Same => n \in Same
    BY <1>15
  <2> HIDE DEF Same
  <2>2. Same = 0..N
    BY <1>1, <1>14, <2>1, IntervalInduction
  <2> QED
    BY <1>1, <2>2
<1> QED
  BY <1>1, <1>5, <1>6, <1>7, <1>16 DEF N, S

\* What the recognizer keeps between two frames, as a working state.
Kept == [tracks |-> tracks, pinch |-> pinch, tap |-> lastTap, out |-> <<>>, ok |-> TRUE]

\* Its fields.
LEMMA KeptParts ==
    /\ Kept.tracks = tracks /\ Kept.pinch = pinch /\ Kept.tap = lastTap
    /\ Kept.out = <<>> /\ Kept.ok
  BY DEF Kept

\* A working state that delivered its gestures is sound for what the consumer
\* heard of them, and the other way round.
LEMMA Delivered ==
    ASSUME NEW T \in Nat, NEW h \in HearType, NEW s \in Work(T),
           NEW bare, bare = [tracks |-> s.tracks, pinch |-> s.pinch, tap |-> s.tap,
                             out |-> <<>>, ok |-> TRUE]
    PROVE  /\ bare \in Work(T)
           /\ Fits(s, h) => Fits(bare, h)
           /\ Fits(bare, h) => Sound(T, h, bare)
<1>1. /\ bare \in Work(T) /\ bare.tracks = s.tracks /\ bare.pinch = s.pinch
      /\ bare.tap = s.tap /\ bare.out = <<>> /\ bare.ok
  BY DEF Work
<1>2. ASSUME Fits(s, h) PROVE Fits(bare, h)
  <2>1. \A i \in TrackSlots : bare.tracks[i] = s.tracks[i]
    BY <1>1
  <2> QED
    BY <1>1, <1>2, <2>1, SameFits
<1>3. ASSUME Fits(bare, h) PROVE Sound(T, h, bare)
  <2>1. Heard(h, bare.out) = h
    BY <1>1, HeardNothing
  <2>2. Len(bare.out) = 0
    BY <1>1
  <2>3. MaxGestures \in Nat
    BY RecognizerAssumption
  <2> QED
    BY <1>1, <1>3, <2>1, <2>2, <2>3 DEF Sound
<1> QED
  BY <1>1, <1>2, <1>3

\* The events of a valid batch have a place, and a time within the frame.
LEMMA ValidEvents ==
    ASSUME NEW T \in 0..MaxTime, NEW events \in Seq(RawEvents), NEW generation,
           ValidBatch(events, T, generation)
    PROVE  /\ \A i \in DOMAIN events : events[i].x # NonFinite /\ events[i].ts <= T
           /\ events # <<>> => events[Len(events)].ts \in 0..T
<1>1. \A i \in DOMAIN events : events[i].x # NonFinite /\ events[i].ts <= T
  BY DEF ValidBatch
<1>2. \A i \in 1..Len(events) : events[i] \in RawEvents /\ i \in DOMAIN events
  BY LenProperties, ElementOfSeq
<1>3. ASSUME events # <<>> PROVE events[Len(events)].ts \in 0..T
  <2>1. Len(events) \in 1..Len(events)
    BY <1>3, EmptySeq, LenProperties
  <2> DEFINE e == events[Len(events)]
  <2>2. e \in RawEvents /\ e.ts <= T
    BY <1>1, <1>2, <2>1
  <2> HIDE DEF e
  <2>3. e.ts \in 0..T
    BY <2>2, BoundAssumption DEF RawEvents
  <2> QED
    BY <2>3 DEF e
<1> QED
  BY <1>1, <1>3

\* What the events of a frame start from: what update kept, or when it finds
\* another surface, what cancelling leaves of it.
Surfaced(T, generation) ==
    IF seenSurface = generation THEN Kept
    ELSE [CancelTrackedPointers(Kept, T) EXCEPT !.tap = None]

\* A batch that passes the validation goes through sound states.
LEMMA ValidRuns ==
    ASSUME NEW T \in 0..MaxTime, NEW h \in HearType, Kept \in Work(T), Fits(Kept, h),
           NEW events \in Seq(RawEvents), NEW generation,
           ~(T < lastFrame), ValidBatch(events, T, generation)
    PROVE  LET surfaced == Surfaced(T, generation)
               done     == Processed(surfaced, events) IN
           /\ surfaced \in SoundStates(T, h) /\ done \in SoundStates(T, h)
           /\ Updated(events, T, generation) = RecognizeLongPresses(done, T)
<1>0. T \in Nat /\ T \in 0..T
  BY BoundAssumption
<1>1. Sound(T, h, Kept)
  <2>1. Kept = [tracks |-> Kept.tracks, pinch |-> Kept.pinch, tap |-> Kept.tap, out |-> <<>>, ok |-> TRUE]
    BY DEF Kept
  <2> QED
    BY <1>0, <2>1, Delivered
<1> DEFINE bare == [CancelTrackedPointers(Kept, T) EXCEPT !.tap = None]
           surfaced == Surfaced(T, generation)
           done == Processed(surfaced, events)
<1>2. Updated(events, T, generation) = RecognizeLongPresses(done, T)
  BY DEF Updated, Kept, Surfaced
<1>3. surfaced \in SoundStates(T, h)
  <2>1. Sound(T, h, bare)
    BY <1>0, <1>1, CancelTrackedPointersSound
  <2>2. surfaced \in {Kept, bare}
    BY DEF Surfaced
  <2> HIDE DEF bare, surfaced
  <2> QED
    BY <1>1, <2>1, <2>2 DEF SoundStates, Sound
<1> HIDE DEF surfaced
<1>4. \A i \in DOMAIN events : events[i].x # NonFinite /\ events[i].ts <= T
  BY ValidEvents
<1>5. done \in SoundStates(T, h)
  <2>1. PICK f \in [0..Len(events) -> SoundStates(T, h)] :
           Runs(f, surfaced, Len(events), events) /\ Processed(surfaced, events) = f[Len(events)]
    BY <1>3, <1>4, ProcessedLoop
  <2>2. Len(events) \in 0..Len(events)
    BY LenProperties
  <2> QED
    BY <2>1, <2>2
<1> QED
  BY <1>2, <1>3, <1>5 DEF surfaced

\* update keeps the working state sound, whatever the batch.
LEMMA UpdatedSound ==
    ASSUME NEW T \in 0..MaxTime, NEW h \in HearType, Kept \in Work(T), Fits(Kept, h),
           NEW events \in Seq(RawEvents), NEW generation
    PROVE  LET s == Updated(events, T, generation) IN
           /\ Sound(T, h, s)
           /\ s.ok => /\ ~(T < lastFrame)
                      /\ ValidBatch(events, T, generation)
<1>0. T \in Nat /\ T \in 0..T
  BY BoundAssumption
<1>2. CASE T < lastFrame \/ ~ValidBatch(events, T, generation)
  <2>1. Updated(events, T, generation) = Fails(Kept)
    BY <1>2 DEF Updated, Kept
  <2>2. Kept \in Work(T)
    OBVIOUS
  <2> QED
    BY <1>0, <2>1, <2>2, FailsSound
<1>3. CASE ~(T < lastFrame \/ ~ValidBatch(events, T, generation))
  <2> DEFINE done == Processed(Surfaced(T, generation), events)
  <2>1. done \in SoundStates(T, h) /\ Updated(events, T, generation) = RecognizeLongPresses(done, T)
    BY <1>3, ValidRuns
  <2> HIDE DEF done
  <2>2. Sound(T, h, RecognizeLongPresses(done, T))
    BY <1>0, <2>1, RecognizeLongPressesSound DEF SoundStates
  <2> QED
    BY <1>3, <2>1, <2>2
<1> QED
  BY <1>2, <1>3

\* The inductive invariant of the recognizer: what it keeps is well typed and
\* fits what the consumer believes.
GestureInductive ==
    /\ Kept \in Work(MaxTime) /\ heard \in HearType /\ Fits(Kept, heard)
    /\ seenSurface \in 0..MaxSurface \cup {None}
    /\ lastFrame \in 0..MaxTime /\ lastEvent \in 0..lastFrame
    /\ gestures \in Seq(Telling(lastFrame)) /\ Len(gestures) <= MaxGestures

\* With no track, pinch and tap the consumer believes nothing is going on.
LEMMA SilenceFits ==
    ASSUME NEW T \in Nat, NEW s, s = [tracks |-> NoTracks, pinch |-> None, tap |-> None,
                                      out |-> <<>>, ok |-> TRUE]
    PROVE  s \in Work(T) /\ Silence \in HearType /\ Fits(s, Silence)
<1>1. NoTracks \in [TrackSlots -> TrackType \cup {None}] /\ \A i \in TrackSlots : NoTracks[i] = None
  BY DEF NoTracks
<1>2. /\ s \in Work(T) /\ s.tracks = NoTracks /\ s.pinch = None /\ s.tap = None
  BY <1>1 DEF Work
<1>3. Silence \in HearType /\ Silence.open = {} /\ Silence.orderly
  BY DEF Silence, HearType
<1>4. Apart(s) /\ Absorbed(s) /\ Paired(s) /\ \A a : ~Drags(s, a)
  BY <1>1, <1>2 DEF Apart, Absorbed, Paired, Drags
<1>5. \A p \in PointerIds \X PointerIds : s.pinch # p
  BY <1>2, NoneAssumption
<1>6. Matches(s, Silence.open)
  BY <1>3, <1>4, <1>5 DEF Matches
<1> QED
  BY <1>2, <1>3, <1>4, <1>6 DEF Fits

\* A new recognizer has the inductive invariant.
LEMMA GestureInitInductive == GestureInit => GestureInductive
<1> SUFFICES ASSUME GestureInit PROVE GestureInductive
  OBVIOUS
<1>1. Kept = [tracks |-> NoTracks, pinch |-> None, tap |-> None, out |-> <<>>, ok |-> TRUE]
      /\ heard = Silence
  BY DEF GestureInit, Kept
<1>2. Kept \in Work(MaxTime) /\ heard \in HearType /\ Fits(Kept, heard)
  BY <1>1, SilenceFits, BoundAssumption
<1>3. Len(gestures) <= MaxGestures /\ gestures \in Seq(Telling(lastFrame))
  BY RecognizerAssumption DEF GestureInit
<1> QED
  BY <1>2, <1>3, BoundAssumption DEF GestureInit, GestureInductive

\* The type of what was told does not depend on the bound of the time.
LEMMA LaterTelling ==
    ASSUME NEW T \in Nat, NEW U \in Nat, T <= U
    PROVE  /\ Seq(Telling(T)) \subseteq Seq(Telling(U))
           /\ Work(T) \subseteq Work(U)
<1>1. Telling(T) \subseteq Telling(U)
  BY DEF Telling
<1>2. Seq(Telling(T)) \subseteq Seq(Telling(U))
  <2> SUFFICES ASSUME NEW q \in Seq(Telling(T)) PROVE q \in Seq(Telling(U))
    OBVIOUS
  <2>1. \A i \in 1..Len(q) : q[i] \in Telling(U)
    BY <1>1, ElementOfSeq
  <2> QED
    BY <2>1, IsASeq, LenProperties
<1> QED
  BY <1>2 DEF Work

\* So has one that was reset.
LEMMA ResetInductive == Reset => GestureInductive'
<1> SUFFICES ASSUME Reset PROVE GestureInductive'
  OBVIOUS
<1>1. Kept' = [tracks |-> NoTracks, pinch |-> None, tap |-> None, out |-> <<>>, ok |-> TRUE]
      /\ heard' = Silence
  BY DEF Reset, Kept
<1>2. Kept' \in Work(MaxTime) /\ heard' \in HearType /\ Fits(Kept', heard')
  BY <1>1, SilenceFits, BoundAssumption
<1>3. Len(gestures') <= MaxGestures /\ gestures' \in Seq(Telling(lastFrame'))
  BY RecognizerAssumption DEF Reset
<1> QED
  BY <1>2, <1>3, BoundAssumption DEF Reset, GestureInductive, Fits, Apart, Absorbed, Paired, Matches

\* A frame keeps the inductive invariant, also when it fails.
LEMMA UpdateInductive ==
    ASSUME GestureInductive, NEW T \in 0..MaxTime, NEW generation \in 0..MaxSurface,
           NEW events \in Seq(RawEvents), Update(events, T, generation)
    PROVE  GestureInductive'
<1> DEFINE s == Updated(events, T, generation)
           before == Kept
<1>0. T \in Nat /\ MaxTime \in Nat /\ T <= MaxTime
  BY BoundAssumption
<1>1. CASE ~s.ok
  BY <1>1, ResetInductive DEF Update
<1>2. CASE s.ok
  <2>1. Kept \in Work(T) /\ Fits(Kept, heard) /\ heard \in HearType
    <3>1. <<>> \in Seq(Telling(T))
      OBVIOUS
    <3>2. Kept \in Work(MaxTime)
      BY DEF GestureInductive
    <3> QED
      BY <3>1, <3>2 DEF GestureInductive, Kept, Work
  <2>2. Sound(T, heard, s) /\ ~(T < lastFrame) /\ ValidBatch(events, T, generation)
    BY <1>2, <2>1, UpdatedSound
  <2>3. Deliver(s, events, T, generation)
    BY <1>2 DEF Update
  <2> HIDE DEF s
  <2>4. s \in Work(T) /\ Len(s.out) <= MaxGestures /\ Fits(s, Heard(heard, s.out))
    BY <1>2, <2>2 DEF Sound
  <2>5. heard' = Heard(heard, s.out) /\ heard' \in HearType
    BY <2>3, <2>4 DEF Deliver, Fits
  <2>6. Kept' = [tracks |-> s.tracks, pinch |-> s.pinch, tap |-> s.tap, out |-> <<>>, ok |-> TRUE]
    BY <2>3 DEF Deliver, Kept
  <2>7. Kept' \in Work(T) /\ Fits(Kept', heard')
    BY <1>0, <2>4, <2>5, <2>6, Delivered
  <2>8. Kept' \in Work(MaxTime)
    BY <1>0, <2>7, LaterTelling
  <2>9. gestures' \in Seq(Telling(lastFrame')) /\ Len(gestures') <= MaxGestures
    BY <2>3, <2>4 DEF Deliver, Work
  <2>10. lastEvent' \in 0..lastFrame'
    <3>1. CASE events = <<>>
      BY <1>0, <2>2, <2>3, <3>1 DEF Deliver, GestureInductive
    <3>2. CASE events # <<>>
      BY <2>2, <2>3, <3>2, ValidEvents DEF Deliver
    <3> QED
      BY <3>1, <3>2
  <2>11. seenSurface' \in 0..MaxSurface \cup {None} /\ lastFrame' \in 0..MaxTime
    BY <2>3 DEF Deliver
  <2> QED
    BY <2>5, <2>7, <2>8, <2>9, <2>10, <2>11
       DEF GestureInductive, Fits, Apart, Absorbed, Paired, InPair, Matches, Drags
<1> QED
  BY <1>1, <1>2

\* A step of others keeps it.
LEMMA GestureUnchanged ==
    ASSUME GestureInductive, UNCHANGED gestureVars
    PROVE  GestureInductive'
<1>1. /\ Kept' = Kept /\ heard' = heard /\ seenSurface' = seenSurface /\ lastFrame' = lastFrame
      /\ lastEvent' = lastEvent /\ gestures' = gestures
  BY DEF gestureVars, recognizerVars, Kept
<1> QED
  BY <1>1 DEF GestureInductive, Fits, Apart, Absorbed, Paired, InPair, Matches, Drags

\* Every step of the recognizer keeps it.
LEMMA GestureNextInductive ==
    GestureInductive /\ [GestureNext]_gestureVars => GestureInductive'
<1> SUFFICES ASSUME GestureInductive, [GestureNext]_gestureVars PROVE GestureInductive'
  OBVIOUS
<1>1. CASE GestureNext
  BY <1>1, UpdateInductive DEF GestureNext
<1>2. CASE UNCHANGED gestureVars
  BY <1>2, GestureUnchanged
<1> QED
  BY <1>1, <1>2

\* The pointers of a pair are found at the slot of each.
LEMMA PairFound ==
    ASSUME NEW T \in Nat, NEW s \in Work(T), Apart(s), Absorbed(s), NEW id, InPair(s, id)
    PROVE  LET i == SlotOf(s, id) IN Tracked(s, id) /\ s.tracks[i].pinched /\ ~s.tracks[i].dragging
<1>1. PICK i \in TrackSlots : s.tracks[i] # None /\ s.tracks[i].id = id /\ s.tracks[i].pinched
  BY DEF InPair
<1>2. Tracked(s, id)
  BY <1>1 DEF Tracked, Holds
<1> DEFINE j == SlotOf(s, id)
<1>3. j \in TrackSlots /\ s.tracks[j] # None /\ s.tracks[j].id = id
  BY <1>2, SlotHolds
<1> HIDE DEF j
<1>4. i = j
  BY <1>1, <1>3 DEF Apart
<1> QED
  BY <1>1, <1>2, <1>4 DEF Absorbed, j

\* The inductive invariant says what the runs check.
LEMMA GestureInductiveImplies ==
    GestureInductive => GestureInvariant /\ GesturesAreOrderly /\ NoGestureIsForgotten
<1> SUFFICES ASSUME GestureInductive
             PROVE  GestureInvariant /\ GesturesAreOrderly /\ NoGestureIsForgotten
  OBVIOUS
<1>0. /\ MaxTime \in Nat /\ Kept \in Work(MaxTime) /\ Fits(Kept, heard)
      /\ heard \in HearType
  BY BoundAssumption DEF GestureInductive
<1>1. /\ tracks \in [TrackSlots -> TrackType \cup {None}]
      /\ pinch \in (PointerIds \X PointerIds) \cup {None}
      /\ lastTap \in TapType \cup {None}
  BY <1>0, KeptParts, WorkParts
<1>2. GestureTypeOK
  <2>1. \A i, j \in TrackSlots :
           tracks[i] # None /\ tracks[j] # None /\ tracks[i].id = tracks[j].id => i = j
    BY <1>0, KeptParts DEF Fits, Apart
  <2> QED
    BY <1>1, <2>1 DEF GestureTypeOK, GestureInductive
<1>3. \A id : Holds(State, id) = Holds(Kept, id) /\ SlotOf(State, id) = SlotOf(Kept, id)
  BY DEF Holds, SlotOf, State, Kept
<1>4. PinchHoldsItsPointers
  <2> SUFFICES ASSUME pinch # None
               PROVE  /\ pinch[1] # pinch[2] /\ BothTracked(State)
                      /\ \A k \in 1..2 : LET t == tracks[SlotOf(State, pinch[k])] IN t.pinched /\ ~t.dragging
    BY DEF PinchHoldsItsPointers
  <2>1. /\ pinch[1] # pinch[2] /\ InPair(Kept, pinch[1]) /\ InPair(Kept, pinch[2])
        /\ Apart(Kept) /\ Absorbed(Kept)
    BY <1>0, KeptParts DEF Fits, Paired
  <2>2. ASSUME NEW k \in 1..2
        PROVE  /\ Holds(State, pinch[k]) # {}
               /\ LET t == tracks[SlotOf(State, pinch[k])] IN t.pinched /\ ~t.dragging
    <3>1. InPair(Kept, pinch[k])
      BY <2>1
    <3> DEFINE id == pinch[k]
               i == SlotOf(Kept, id)
    <3> HIDE DEF id
    <3>2. Tracked(Kept, id) /\ Kept.tracks[i].pinched /\ ~Kept.tracks[i].dragging
      BY <1>0, <2>1, <3>1, PairFound DEF id
    <3>3. SlotOf(State, id) = i /\ Holds(State, id) # {}
      BY <1>3, <3>2 DEF Tracked
    <3> QED
      BY <3>2, <3>3, KeptParts DEF id
  <2>3. State.pinch = pinch
    BY DEF State
  <2> QED
    BY <2>1, <2>2, <2>3 DEF BothTracked, Tracked
<1>5. GesturesAreOrderly
  BY <1>0 DEF Fits, GesturesAreOrderly
<1>6. NoGestureIsForgotten
  <2> DEFINE dragged == {<<"Drag", <<tracks[i].id>>>> : i \in {j \in TrackSlots : tracks[j] # None /\ tracks[j].dragging}}
             pair == IF pinch = None THEN {} ELSE {<<"Pan", pinch>>, <<"Pinch", pinch>>}
  <2>1. Matches(Kept, heard.open)
    BY <1>0 DEF Fits
  <2>2. ASSUME NEW x \in heard.open PROVE x \in dragged \cup pair
    <3>1. CASE \E a \in PointerIds : x = Drag(a)
      <4>1. PICK a \in PointerIds : x = Drag(a)
        BY <3>1
      <4>2. Drags(Kept, a)
        BY <2>1, <4>1 DEF Matches
      <4>3. PICK i \in TrackSlots : tracks[i] # None /\ tracks[i].id = a /\ tracks[i].dragging
        BY <4>2, KeptParts DEF Drags
      <4> QED
        BY <4>1, <4>3 DEF Drag
    <3>2. CASE \E p \in PointerIds \X PointerIds : x = Pan(p) \/ x = Pinch(p)
      <4>1. PICK p \in PointerIds \X PointerIds : x = Pan(p) \/ x = Pinch(p)
        BY <3>2
      <4>2. pinch = p /\ pinch # None
        BY <2>1, <4>1, KeptParts, NoneAssumption DEF Matches
      <4> QED
        BY <4>1, <4>2 DEF Pan, Pinch
    <3> QED
      BY <2>1, <3>1, <3>2 DEF Matches
  <2>3. ASSUME NEW x \in dragged PROVE x \in heard.open
    <3>1. PICK i \in TrackSlots : tracks[i] # None /\ tracks[i].dragging /\ x = Drag(tracks[i].id)
      BY <2>3 DEF Drag
    <3>2. tracks[i].id \in PointerIds
      BY <1>1, <3>1 DEF TrackType
    <3>3. Drags(Kept, tracks[i].id)
      BY <3>1, KeptParts DEF Drags
    <3> QED
      BY <2>1, <3>1, <3>2, <3>3 DEF Matches
  <2>4. ASSUME NEW x \in pair PROVE x \in heard.open
    <3>1. pinch # None /\ (x = Pan(pinch) \/ x = Pinch(pinch))
      BY <2>4 DEF Pan, Pinch
    <3>2. pinch \in PointerIds \X PointerIds
      BY <1>1, <3>1
    <3> QED
      BY <2>1, <3>1, <3>2, KeptParts DEF Matches
  <2> HIDE DEF dragged, pair
  <2>5. heard.open = dragged \cup pair
    BY <2>2, <2>3, <2>4
  <2> QED
    BY <2>5 DEF NoGestureIsForgotten, dragged, pair
<1> QED
  BY <1>2, <1>4, <1>5, <1>6 DEF GestureInvariant

\* The invariant of the recognizer, for any batches of any caller.
THEOREM GestureAlwaysInductive == GestureSpec => []GestureInductive
<1>1. GestureInit => GestureInductive
  BY GestureInitInductive
<1>2. GestureInductive /\ [GestureNext]_gestureVars => GestureInductive'
  BY GestureNextInductive
<1> QED
  BY <1>1, <1>2, PTL DEF GestureSpec

\* Tracks, output and pinch are together after every frame, whatever the
\* batches: update_pinch never meets a lost pointer.
THEOREM GestureAlwaysInvariant == GestureSpec => []GestureInvariant
<1>1. GestureInductive => GestureInvariant
  BY GestureInductiveImplies
<1> QED
  BY <1>1, GestureAlwaysInductive, PTL

\* Drags, pans and pinches are always told as begin, updates, end, and a
\* double tap always closes two taps of its own.
THEOREM GesturesAlwaysOrderly == GestureSpec => []GesturesAreOrderly
<1>1. GestureInductive => GesturesAreOrderly
  BY GestureInductiveImplies
<1> QED
  BY <1>1, GestureAlwaysInductive, PTL

\* The consumer of the gestures never believes in one that has ended, nor
\* misses one that goes on.
THEOREM NoGestureIsEverForgotten == GestureSpec => []NoGestureIsForgotten
<1>1. GestureInductive => NoGestureIsForgotten
  BY GestureInductiveImplies
<1> QED
  BY <1>1, GestureAlwaysInductive, PTL

-----------------------------------------------------------------------------
(* Where the pointers are.                                                 *)

\* The same pointers are tracked, at the same places.
SamePlaces(s, r) == \A i \in TrackSlots :
    r.tracks[i] # None => /\ s.tracks[i] # None
                          /\ r.tracks[i].id = s.tracks[i].id /\ r.tracks[i].x = s.tracks[i].x

\* What an event says of the pointers: its own is where it says, or gone, and
\* the others are where they were.
Follows(s, e, r) == \A i \in TrackSlots :
    r.tracks[i] # None =>
       \/ r.tracks[i].id = e.id /\ r.tracks[i].x = e.x /\ e.phase \notin Ending
       \/ /\ s.tracks[i] # None /\ r.tracks[i].id # e.id
          /\ r.tracks[i].id = s.tracks[i].id /\ r.tracks[i].x = s.tracks[i].x

\* The least of some numbers is one of them.
LEMMA MinOf ==
    ASSUME NEW S \in SUBSET Nat, S # {}
    PROVE  Min(S) \in S
<1>1. PICK m \in S : \A d \in S : m <= d
  BY Least
<1> QED
  BY <1>1 DEF Min

\* A working state of whatever tracks, pinch and output.
LooseWork(A, B, O) == [tracks : A, pinch : B, tap : TapType \cup {None}, out : O, ok : BOOLEAN]

\* Tracks of whatever pointers.
TypedTracks == [TrackSlots -> TrackType \cup {None}]

\* To emit moves no pointer.
LEMMA EmitTracks ==
    ASSUME NEW A, NEW B, NEW O, NEW events, NEW s \in LooseWork(A, B, O)
    PROVE  /\ Emit(s, events).tracks = s.tracks
           /\ \E P : Emit(s, events) \in LooseWork(A, B, P)
<1> DEFINE told == s.out \o events
<1>1. CASE Len(s.out) + Len(events) <= MaxGestures
  <2>1. Emit(s, events) = [s EXCEPT !.out = told]
    BY <1>1 DEF Emit
  <2> HIDE DEF told
  <2>2. Emit(s, events) \in LooseWork(A, B, {told}) /\ Emit(s, events).tracks = s.tracks
    BY <2>1 DEF LooseWork
  <2> QED
    BY <2>2
<1>2. CASE ~(Len(s.out) + Len(events) <= MaxGestures)
  <2>1. Emit(s, events) = [s EXCEPT !.ok = FALSE]
    BY <1>2 DEF Emit
  <2>2. Emit(s, events) \in LooseWork(A, B, O) /\ Emit(s, events).tracks = s.tracks
    BY <2>1 DEF LooseWork
  <2> QED
    BY <2>2
<1> QED
  BY <1>1, <1>2

\* A pinch that begins moves no pointer.
LEMMA BeginPinchPlaces ==
    ASSUME NEW B, NEW O, NEW s \in LooseWork(TypedTracks, B, O), NEW ts
    PROVE  SamePlaces(s, BeginPinchIfPossible(s, ts))
<1> DEFINE single == {i \in TrackSlots : s.tracks[i] # None /\ ~s.tracks[i].pinched}
           a      == Min(single)
           b      == Min(single \ {a})
           ids    == <<s.tracks[a].id, s.tracks[b].id>>
           endA   == When(s.tracks[a].dragging, Gesture("DragEnd", <<s.tracks[a].id>>, ts))
           endB   == When(s.tracks[b].dragging, Gesture("DragEnd", <<s.tracks[b].id>>, ts))
           Both   == <<Gesture("PanBegin", ids, ts), Gesture("PinchBegin", ids, ts)>>
           after  == [i \in TrackSlots |->
                        IF i \in {a, b} THEN [s.tracks[i] EXCEPT !.pinched = TRUE, !.dragging = FALSE]
                        ELSE s.tracks[i]]
           new    == [s EXCEPT !.pinch = ids, !.tracks = after]
           idle   == s.pinch # None \/ single = {} \/ single = {a}
           told   == endA \o endB \o Both
<1>1. CASE idle \/ (~idle /\ s.tracks[a].x = s.tracks[b].x)
  <2>1. BeginPinchIfPossible(s, ts) = s
    BY <1>1 DEF BeginPinchIfPossible
  <2> QED
    BY <2>1 DEF SamePlaces
<1>2. CASE ~idle /\ s.tracks[a].x # s.tracks[b].x
  <2>0. BeginPinchIfPossible(s, ts) = Emit(new, told)
    BY <1>2 DEF BeginPinchIfPossible
  <2>1. single \in SUBSET Nat /\ single # {}
    BY <1>2 DEF TrackSlots
  <2>2. a \in single
    <3> HIDE DEF single
    <3> QED
      BY <2>1, MinOf
  <2>3. single \ {a} \in SUBSET Nat /\ single \ {a} # {}
    BY <1>2, <2>1, <2>2
  <2>4. b \in single \ {a}
    <3> DEFINE rest == single \ {a}
    <3>1. rest \in SUBSET Nat /\ rest # {}
      BY <2>3
    <3> HIDE DEF rest
    <3>2. Min(rest) \in rest
      BY <3>1, MinOf
    <3> QED
      BY <3>2 DEF rest
  <2>5. /\ a \in TrackSlots /\ s.tracks[a] # None
        /\ b \in TrackSlots /\ s.tracks[b] # None
    BY <2>2, <2>4
  <2> HIDE DEF a, b, ids, told
  <2>6. \A i \in TrackSlots : after[i] # None =>
           /\ s.tracks[i] # None
           /\ after[i].id = s.tracks[i].id /\ after[i].x = s.tracks[i].x
    <3> SUFFICES ASSUME NEW i \in TrackSlots, after[i] # None
                 PROVE  s.tracks[i] # None /\ after[i].id = s.tracks[i].id /\ after[i].x = s.tracks[i].x
      OBVIOUS
    <3>1. CASE i \in {a, b}
      <4>1. s.tracks[i] \in TrackType /\ s.tracks[i] # None
        BY <2>5, <3>1 DEF LooseWork, TypedTracks
      <4>2. after[i] = [s.tracks[i] EXCEPT !.pinched = TRUE, !.dragging = FALSE]
        BY <3>1
      <4> QED
        BY <4>1, <4>2 DEF TrackType
    <3>2. CASE i \notin {a, b}
      BY <3>2
    <3> QED
      BY <3>1, <3>2
  <2> HIDE DEF after
  <2>7. new \in LooseWork({after}, {ids}, O) /\ new.tracks = after
    BY DEF LooseWork
  <2> HIDE DEF new
  <2>8. Emit(new, told).tracks = after
    BY <2>7, EmitTracks
  <2> QED
    BY <2>0, <2>6, <2>8 DEF SamePlaces
<1> QED
  BY <1>1, <1>2

\* Neither does a pinch that ends or goes on.
LEMMA EndPinchTracks ==
    ASSUME NEW A, NEW B, NEW O, NEW s \in LooseWork(A, B, O), NEW ts, NEW cancelled
    PROVE  /\ EndPinch(s, ts, cancelled).tracks = s.tracks
           /\ \E C, P : EndPinch(s, ts, cancelled) \in LooseWork(A, C, P)
<1>1. CASE s.pinch = None
  BY <1>1 DEF EndPinch
<1>2. CASE s.pinch # None
  <2> DEFINE End(type) == [Gesture(type, s.pinch, ts) EXCEPT !.cancelled = cancelled]
             told == <<[End("PinchEnd") EXCEPT !.distance = IF BothTracked(s) THEN Spread(s) ELSE 1], End("PanEnd")>>
             new == [s EXCEPT !.pinch = None]
  <2>1. EndPinch(s, ts, cancelled) = Emit(new, told)
    BY <1>2 DEF EndPinch
  <2>2. new \in LooseWork(A, {None}, O) /\ new.tracks = s.tracks
    BY DEF LooseWork
  <2> HIDE DEF told, new
  <2>3. /\ Emit(new, told).tracks = new.tracks
        /\ \E P : Emit(new, told) \in LooseWork(A, {None}, P)
    BY <2>2, EmitTracks
  <2> QED
    BY <2>1, <2>2, <2>3
<1> QED
  BY <1>1, <1>2

\* To update a pinch moves no pointer.
LEMMA UpdatePinchTracks ==
    ASSUME NEW A, NEW B, NEW O, NEW s \in LooseWork(A, B, O), NEW ts
    PROVE  /\ UpdatePinch(s, ts).tracks = s.tracks
           /\ \E C, P : UpdatePinch(s, ts) \in LooseWork(A, C, P)
<1>1. CASE s.pinch = None
  BY <1>1 DEF UpdatePinch
<1>2. CASE s.pinch # None /\ ~BothTracked(s)
  <2>1. UpdatePinch(s, ts) = EndPinch(s, ts, TRUE)
    BY <1>2 DEF UpdatePinch
  <2>2. \A cancelled : /\ EndPinch(s, ts, cancelled).tracks = s.tracks
                       /\ \E C, P : EndPinch(s, ts, cancelled) \in LooseWork(A, C, P)
    BY EndPinchTracks
  <2> QED
    BY <2>1, <2>2, Zenon
<1>3. CASE s.pinch # None /\ BothTracked(s)
  <2> DEFINE told == <<Gesture("PanUpdate", s.pinch, ts),
                       [Gesture("PinchUpdate", s.pinch, ts) EXCEPT !.distance = Spread(s)]>>
  <2>1. UpdatePinch(s, ts) = Emit(s, told)
    BY <1>3 DEF UpdatePinch
  <2> HIDE DEF told
  <2> QED
    BY <2>1, EmitTracks
<1> QED
  BY <1>1, <1>2, <1>3

\* A working state is one of these.
LEMMA WorkIsLoose ==
    ASSUME NEW T, NEW s \in Work(T)
    PROVE  s \in LooseWork(TypedTracks, (PointerIds \X PointerIds) \cup {None}, Seq(Telling(T)))
  BY DEF Work, LooseWork, TypedTracks

\* A pointer went down where the event says.
LEMMA ProcessDownFollows ==
    ASSUME NEW T \in 0..MaxTime, NEW s \in Work(T), s.ok,
           NEW e, e.id \in PointerIds, e.x \in Positions, e.ts \in 0..T, e.phase = "Down",
           ProcessDown(s, e).ok
    PROVE  Follows(s, e, ProcessDown(s, e))
<1> DEFINE i == Min(FreeSlots(s))
           t == [id |-> e.id, start |-> e.x, x |-> e.x, down |-> e.ts,
                 dragging |-> FALSE, longPressed |-> FALSE, pinched |-> FALSE]
           new == [s EXCEPT !.tracks[i] = t]
           r == BeginPinchIfPossible(new, e.ts)
<1>1. ~Tracked(s, e.id) /\ FreeSlots(s) # {}
  <2>1. ~Fails(s).ok
    BY DEF Fails, Work
  <2> QED
    BY <2>1 DEF ProcessDown
<1>2. ProcessDown(s, e) = r
  BY <1>1 DEF ProcessDown
<1>3. i \in TrackSlots
  <2>1. FreeSlots(s) \in SUBSET Nat
    BY DEF FreeSlots, TrackSlots
  <2> QED
    BY <1>1, <2>1, MinOf DEF FreeSlots
<1>4. t \in TrackType
  BY BoundAssumption DEF TrackType
<1>5. \A j \in TrackSlots : s.tracks[j] # None => s.tracks[j].id # e.id
  BY <1>1 DEF Tracked, Holds
<1> HIDE DEF i
<1>6. /\ new \in LooseWork(TypedTracks, (PointerIds \X PointerIds) \cup {None}, Seq(Telling(T)))
      /\ new.tracks[i] = t /\ \A j \in TrackSlots : j # i => new.tracks[j] = s.tracks[j]
  BY <1>3, <1>4 DEF Work, LooseWork, TypedTracks
<1>7. t.id = e.id /\ t.x = e.x
  OBVIOUS
<1> HIDE DEF new, t
<1>8. SamePlaces(new, r)
  BY <1>6, BeginPinchPlaces
<1> HIDE DEF r
<1>9. ASSUME NEW j \in TrackSlots, r.tracks[j] # None
      PROVE  \/ r.tracks[j].id = e.id /\ r.tracks[j].x = e.x /\ e.phase \notin Ending
             \/ /\ s.tracks[j] # None /\ r.tracks[j].id # e.id
                /\ r.tracks[j].id = s.tracks[j].id /\ r.tracks[j].x = s.tracks[j].x
  <2>1. new.tracks[j] # None /\ r.tracks[j].id = new.tracks[j].id /\ r.tracks[j].x = new.tracks[j].x
    BY <1>8, <1>9 DEF SamePlaces
  <2>2. CASE j = i
    BY <1>6, <1>7, <2>1, <2>2 DEF Ending
  <2>3. CASE j # i
    BY <1>5, <1>6, <2>1, <2>3
  <2> QED
    BY <2>2, <2>3
<1> QED
  BY <1>2, <1>9 DEF Follows

\* A pointer moved to where the event says.
LEMMA ProcessMoveFollows ==
    ASSUME NEW T \in 0..MaxTime, NEW s \in Work(T), s.ok, Apart(s),
           NEW e, e.id \in PointerIds, e.x \in Positions, e.ts \in 0..T, e.phase = "Move",
           ProcessMove(s, e).ok
    PROVE  Follows(s, e, ProcessMove(s, e))
<1> DEFINE i      == SlotOf(s, e.id)
           t      == s.tracks[i]
           begins == /\ ~t.pinched /\ ~t.dragging /\ ~t.longPressed
                     /\ Distance(t.start, e.x) > MovementThreshold
           drags  == ~t.pinched /\ (t.dragging \/ begins)
           new    == [s EXCEPT !.tracks[i] = [@ EXCEPT !.x = e.x, !.dragging = t.dragging \/ begins]]
           told   == When(begins, Gesture("DragBegin", <<e.id>>, e.ts))
                        \o When(drags, Gesture("DragUpdate", <<e.id>>, e.ts))
           moved  == Emit(new, told)
           r      == ProcessMove(s, e)
<1>0. T \in Nat
  BY BoundAssumption
<1>1. Tracked(s, e.id)
  <2>1. ~Fails(s).ok
    BY DEF Fails, Work
  <2> QED
    BY <2>1 DEF ProcessMove
<1>2. r = IF s.pinch # None THEN UpdatePinch(moved, e.ts) ELSE BeginPinchIfPossible(moved, e.ts)
  BY <1>1 DEF ProcessMove
<1>3. i \in TrackSlots /\ t \in TrackType /\ t # None /\ t.id = e.id
  BY <1>0, <1>1, SlotHolds
<1>4. (t.dragging \/ begins) \in BOOLEAN
  BY <1>3 DEF TrackType
<1> HIDE DEF i
<1>5. /\ new \in LooseWork(TypedTracks, (PointerIds \X PointerIds) \cup {None}, Seq(Telling(T)))
      /\ new.tracks[i].id = e.id /\ new.tracks[i].x = e.x
      /\ \A j \in TrackSlots : j # i => new.tracks[j] = s.tracks[j]
  <2> DEFINE d == t.dragging \/ begins
             n == [t EXCEPT !.x = e.x, !.dragging = d]
  <2>1. d \in BOOLEAN
    BY <1>4
  <2> HIDE DEF d
  <2>2. n \in TrackType /\ n.id = e.id /\ n.x = e.x
    BY <1>3, <2>1 DEF TrackType
  <2>3. new = [s EXCEPT !.tracks[i] = n]
    BY <1>3 DEF Work, d
  <2> HIDE DEF n, new
  <2> QED
    BY <1>3, <2>2, <2>3 DEF Work, LooseWork, TypedTracks
<1> HIDE DEF new, told
<1>6. /\ moved.tracks = new.tracks
      /\ \E P : moved \in LooseWork(TypedTracks, (PointerIds \X PointerIds) \cup {None}, P)
  BY <1>5, EmitTracks
<1> HIDE DEF moved
<1>7. SamePlaces(moved, r)
  <2>1. PICK P : moved \in LooseWork(TypedTracks, (PointerIds \X PointerIds) \cup {None}, P)
    BY <1>6
  <2>2. UpdatePinch(moved, e.ts).tracks = moved.tracks /\ SamePlaces(moved, BeginPinchIfPossible(moved, e.ts))
    BY <2>1, UpdatePinchTracks, BeginPinchPlaces
  <2> QED
    BY <1>2, <2>2 DEF SamePlaces
<1> HIDE DEF r
<1>8. \A j \in TrackSlots : j # i /\ s.tracks[j] # None => s.tracks[j].id # e.id
  BY <1>3 DEF Apart
<1>9. ASSUME NEW j \in TrackSlots, r.tracks[j] # None
      PROVE  \/ r.tracks[j].id = e.id /\ r.tracks[j].x = e.x /\ e.phase \notin Ending
             \/ /\ s.tracks[j] # None /\ r.tracks[j].id # e.id
                /\ r.tracks[j].id = s.tracks[j].id /\ r.tracks[j].x = s.tracks[j].x
  <2>1. /\ new.tracks[j] # None /\ r.tracks[j].id = new.tracks[j].id
        /\ r.tracks[j].x = new.tracks[j].x
    BY <1>6, <1>7, <1>9 DEF SamePlaces
  <2>2. CASE j = i
    BY <1>5, <2>1, <2>2 DEF Ending
  <2>3. CASE j # i
    BY <1>5, <1>8, <2>1, <2>3
  <2> QED
    BY <2>2, <2>3
<1> QED
  BY <1>9 DEF Follows, r

\* A released pointer is gone, the others are where they were.
LEMMA ReleaseFollows ==
    ASSUME NEW T \in Nat, NEW s \in Work(T), Apart(s), NEW e, e.x \in Positions, Tracked(s, e.id),
           NEW r, r.tracks = [MovedTo(s, SlotOf(s, e.id), e.x).tracks EXCEPT ![SlotOf(s, e.id)] = None]
    PROVE  Follows(s, e, r)
<1> DEFINE i == SlotOf(s, e.id)
           moved == MovedTo(s, i, e.x)
<1>1. i \in TrackSlots /\ s.tracks[i] # None /\ s.tracks[i].id = e.id
  BY SlotHolds
<1> HIDE DEF i
<1>2. \A j \in TrackSlots : j # i => moved.tracks[j] = s.tracks[j]
  BY <1>1 DEF Work, MovedTo
<1>3. moved.tracks \in [TrackSlots -> {moved.tracks[j] : j \in TrackSlots}]
  BY <1>1 DEF Work, MovedTo
<1> HIDE DEF moved
<1>4. r.tracks = [moved.tracks EXCEPT ![i] = None]
  BY DEF i, moved
<1>5. r.tracks[i] = None /\ \A j \in TrackSlots : j # i => r.tracks[j] = s.tracks[j]
  BY <1>1, <1>2, <1>3, <1>4
<1>6. \A j \in TrackSlots : j # i /\ s.tracks[j] # None => s.tracks[j].id # e.id
  BY <1>1 DEF Apart
<1> QED
  BY <1>5, <1>6 DEF Follows

\* So is one in which a track moved.
LEMMA MovedLoose ==
    ASSUME NEW T \in Nat, NEW s \in Work(T), NEW i \in TrackSlots, s.tracks[i] # None, NEW x \in Positions
    PROVE  MovedTo(s, i, x) \in LooseWork(TypedTracks, (PointerIds \X PointerIds) \cup {None}, Seq(Telling(T)))
<1> DEFINE t == [s.tracks[i] EXCEPT !.x = x]
<1>1. t \in TrackType
  <2>1. s.tracks[i] \in TrackType
    BY TrackParts
  <2> QED
    BY <2>1 DEF TrackType
<1>2. MovedTo(s, i, x) = [s EXCEPT !.tracks[i] = t]
  BY DEF MovedTo, Work
<1> HIDE DEF t
<1> QED
  BY <1>1, <1>2 DEF Work, LooseWork, TypedTracks

\* An Up releases its pointer.
LEMMA ProcessUpFollows ==
    ASSUME NEW T \in 0..MaxTime, NEW s \in Work(T), s.ok, Apart(s),
           NEW e, e.id \in PointerIds, e.x \in Positions, e.ts \in 0..T, e.phase = "Up",
           ProcessUp(s, e).ok
    PROVE  Follows(s, e, ProcessUp(s, e))
<1> DEFINE i         == SlotOf(s, e.id)
           t         == s.tracks[i]
           moved     == MovedTo(s, i, e.x)
           parted    == IF InPinch(s, e.id)
                        THEN EndPinch(UpdatePinch(moved, e.ts), e.ts, FALSE)
                        ELSE moved
           released  == [parted EXCEPT !.tracks[i] = None]
           duration  == e.ts - t.down
           travelled == Distance(t.start, e.x)
           presses   == /\ ~t.dragging /\ ~t.longPressed
                        /\ travelled <= MovementThreshold /\ duration >= LongPressDuration
           drags     == t.dragging \/ travelled > MovementThreshold
           swipes    == drags /\ duration > 0 /\ travelled >= MinimumSwipeVelocity * duration
           taps      == /\ ~drags /\ ~t.longPressed /\ ~presses
                        /\ duration <= MaximumTapDuration
           doubles   == taps /\ CompletesDoubleTap(s, e)
           G(type)   == Gesture(type, <<e.id>>, e.ts)
           told      == When(presses, G("LongPress"))
                          \o When(drags /\ ~t.dragging, G("DragBegin")) \o When(drags, G("DragEnd"))
                          \o When(swipes, G("Swipe")) \o When(taps, G("Tap")) \o When(doubles, G("DoubleTap"))
           tap       == IF doubles THEN None ELSE IF taps THEN [x |-> e.x, ts |-> e.ts] ELSE released.tap
           new       == [released EXCEPT !.tap = tap]
           r         == ProcessUp(s, e)
<1>0. T \in Nat
  BY BoundAssumption
<1>1. Tracked(s, e.id)
  <2>1. ~Fails(s).ok
    BY DEF Fails, Work
  <2> QED
    BY <2>1 DEF ProcessUp
<1>2. r = IF t.pinched THEN released ELSE Emit(new, told)
  BY <1>1 DEF ProcessUp, MovedTo
<1> HIDE DEF told, r
<1>3. i \in TrackSlots /\ s.tracks[i] # None
  BY <1>0, <1>1, SlotHolds
<1>4. moved \in LooseWork(TypedTracks, (PointerIds \X PointerIds) \cup {None}, Seq(Telling(T)))
  BY <1>0, <1>3, MovedLoose
<1> HIDE DEF moved
<1>5. parted.tracks = moved.tracks /\ \E B, O : parted \in LooseWork(TypedTracks, B, O)
  <2>1. CASE ~InPinch(s, e.id)
    BY <1>4, <2>1
  <2>2. CASE InPinch(s, e.id)
    <3> DEFINE u == UpdatePinch(moved, e.ts)
    <3>1. u.tracks = moved.tracks /\ \E B, O : u \in LooseWork(TypedTracks, B, O)
      BY <1>4, UpdatePinchTracks
    <3> HIDE DEF u
    <3>2. PICK B, O : u \in LooseWork(TypedTracks, B, O)
      BY <3>1
    <3>3. \A cancelled : /\ EndPinch(u, e.ts, cancelled).tracks = u.tracks
                         /\ \E C, P : EndPinch(u, e.ts, cancelled) \in LooseWork(TypedTracks, C, P)
      BY <3>2, EndPinchTracks
    <3>4. parted = EndPinch(u, e.ts, FALSE)
      BY <2>2 DEF u
    <3> HIDE DEF parted
    <3>5. /\ EndPinch(u, e.ts, FALSE).tracks = u.tracks
          /\ \E C, P : EndPinch(u, e.ts, FALSE) \in LooseWork(TypedTracks, C, P)
      BY <3>3, Zenon
    <3> QED
      BY <3>1, <3>4, <3>5
  <2> QED
    BY <2>1, <2>2
<1> HIDE DEF parted
<1>6. PICK B, O : parted \in LooseWork(TypedTracks, B, O)
  BY <1>5
<1> HIDE DEF i
<1>7. /\ released \in LooseWork(TypedTracks, B, O)
      /\ released.tracks = [parted.tracks EXCEPT ![i] = None]
  BY <1>3, <1>6 DEF LooseWork, TypedTracks
<1> HIDE DEF released
<1>8. tap \in TapType \cup {None}
  <2>1. e.ts \in 0..MaxTime
    BY BoundAssumption
  <2>2. [x |-> e.x, ts |-> e.ts] \in TapType
    BY <2>1 DEF TapType
  <2>3. released.tap \in TapType \cup {None}
    BY <1>7 DEF LooseWork
  <2> HIDE DEF doubles, taps
  <2> QED
    BY <2>2, <2>3
<1> HIDE DEF tap
<1>9. new \in LooseWork(TypedTracks, B, O) /\ new.tracks = released.tracks
  BY <1>7, <1>8 DEF LooseWork
<1> HIDE DEF new
<1>10. Emit(new, told).tracks = released.tracks
  BY <1>9, EmitTracks
<1>11. r.tracks = [moved.tracks EXCEPT ![i] = None]
  BY <1>2, <1>5, <1>7, <1>10
<1> QED
  BY <1>0, <1>1, <1>11, ReleaseFollows DEF moved, i, r

\* So does a Cancel.
LEMMA ProcessCancelFollows ==
    ASSUME NEW T \in 0..MaxTime, NEW s \in Work(T), s.ok, Apart(s),
           NEW e, e.id \in PointerIds, e.x \in Positions, e.ts \in 0..T, e.phase = "Cancel",
           ProcessCancel(s, e).ok
    PROVE  Follows(s, e, ProcessCancel(s, e))
<1> DEFINE i      == SlotOf(s, e.id)
           moved  == MovedTo(s, i, e.x)
           parted == IF InPinch(s, e.id) THEN EndPinch(moved, e.ts, TRUE) ELSE moved
           new    == [parted EXCEPT !.tracks[i] = None, !.tap = None]
           told   == When(s.tracks[i].dragging, Cancelled(Gesture("DragEnd", <<e.id>>, e.ts)))
                       \o <<Cancelled(Gesture("Cancelled", <<e.id>>, e.ts))>>
           r      == ProcessCancel(s, e)
<1>0. T \in Nat
  BY BoundAssumption
<1>1. Tracked(s, e.id)
  <2>1. ~Fails(s).ok
    BY DEF Fails, Work
  <2> QED
    BY <2>1 DEF ProcessCancel
<1>2. r = Emit(new, told)
  BY <1>1 DEF ProcessCancel, MovedTo
<1> HIDE DEF told, r
<1>3. i \in TrackSlots /\ s.tracks[i] # None
  BY <1>0, <1>1, SlotHolds
<1>4. moved \in LooseWork(TypedTracks, (PointerIds \X PointerIds) \cup {None}, Seq(Telling(T)))
  BY <1>0, <1>3, MovedLoose
<1> HIDE DEF moved
<1>5. parted.tracks = moved.tracks /\ \E B, O : parted \in LooseWork(TypedTracks, B, O)
  <2>1. CASE ~InPinch(s, e.id)
    BY <1>4, <2>1
  <2>2. CASE InPinch(s, e.id)
    <3>1. \A cancelled : /\ EndPinch(moved, e.ts, cancelled).tracks = moved.tracks
                         /\ \E C, P : EndPinch(moved, e.ts, cancelled) \in LooseWork(TypedTracks, C, P)
      BY <1>4, EndPinchTracks
    <3>2. parted = EndPinch(moved, e.ts, TRUE)
      BY <2>2
    <3> HIDE DEF parted
    <3>3. /\ EndPinch(moved, e.ts, TRUE).tracks = moved.tracks
          /\ \E C, P : EndPinch(moved, e.ts, TRUE) \in LooseWork(TypedTracks, C, P)
      BY <3>1, Zenon
    <3> QED
      BY <3>2, <3>3
  <2> QED
    BY <2>1, <2>2
<1> HIDE DEF parted
<1>6. PICK B, O : parted \in LooseWork(TypedTracks, B, O)
  BY <1>5
<1> HIDE DEF i
<1>7. /\ new \in LooseWork(TypedTracks, B, O)
      /\ new.tracks = [parted.tracks EXCEPT ![i] = None]
  BY <1>3, <1>6 DEF LooseWork, TypedTracks
<1> HIDE DEF new
<1>8. Emit(new, told).tracks = new.tracks
  BY <1>7, EmitTracks
<1>9. r.tracks = [moved.tracks EXCEPT ![i] = None]
  BY <1>2, <1>5, <1>7, <1>8
<1> QED
  BY <1>0, <1>1, <1>9, ReleaseFollows DEF moved, i, r

\* Every event moves the pointer it is about, and no other.
LEMMA EventTurnFollows ==
    ASSUME NEW T \in 0..MaxTime, NEW h \in HearType, NEW w \in SoundStates(T, h), w.ok,
           NEW e \in RawEvents, e.x # NonFinite, e.ts <= T, EventTurn(w, e).ok
    PROVE  Follows(w, e, EventTurn(w, e))
<1>0. T \in Nat /\ T \in 0..MaxTime /\ w \in Work(T) /\ Apart(w)
  BY BoundAssumption DEF SoundStates, Sound, Fits
<1>1. e.id \in PointerIds /\ e.phase \in Phases /\ e.x \in Positions /\ e.ts \in 0..T
  BY <1>0 DEF RawEvents
<1>2. EventTurn(w, e) = ProcessEvent(w, e)
  BY DEF EventTurn
<1>3. CASE e.phase = "Down"
  <2>1. ProcessEvent(w, e) = ProcessDown(w, e)
    BY <1>3 DEF ProcessEvent
  <2> QED
    BY <1>0, <1>1, <1>2, <1>3, <2>1, ProcessDownFollows
<1>4. CASE e.phase = "Move"
  <2>1. ProcessEvent(w, e) = ProcessMove(w, e)
    BY <1>4 DEF ProcessEvent
  <2> QED
    BY <1>0, <1>1, <1>2, <1>4, <2>1, ProcessMoveFollows
<1>5. CASE e.phase = "Up"
  <2>1. ProcessEvent(w, e) = ProcessUp(w, e)
    BY <1>5 DEF ProcessEvent
  <2> QED
    BY <1>0, <1>1, <1>2, <1>5, <2>1, ProcessUpFollows
<1>6. CASE e.phase = "Cancel"
  <2>1. ProcessEvent(w, e) = ProcessCancel(w, e)
    BY <1>6 DEF ProcessEvent
  <2> QED
    BY <1>0, <1>1, <1>2, <1>6, <2>1, ProcessCancelFollows
<1> QED
  BY <1>1, <1>3, <1>4, <1>5, <1>6 DEF Phases

\* Looking for long presses moves no pointer, and mends no failure.
LEMMA RecognizeLongPressesPlaces ==
    ASSUME NEW T \in Nat, NEW s \in Work(T), NEW ts
    PROVE  LET r == RecognizeLongPresses(s, ts) IN SamePlaces(s, r) /\ (r.ok => s.ok)
<1> DEFINE pressed == {i \in TrackSlots :
                        LET t == s.tracks[i] IN
                        /\ t # None
                        /\ ~t.dragging /\ ~t.longPressed /\ ~t.pinched
                        /\ ts - t.down >= LongPressDuration
                        /\ Distance(t.start, t.x) <= MovementThreshold}
           after == [i \in TrackSlots |->
                       IF i \in pressed THEN [s.tracks[i] EXCEPT !.longPressed = TRUE] ELSE s.tracks[i]]
           new == [s EXCEPT !.tracks = after]
           told == ForSlots(s, pressed, Gesture("LongPress", <<>>, ts))
           r == Emit(new, told)
<1>1. RecognizeLongPresses(s, ts) = r
  BY DEF RecognizeLongPresses
<1>2. \A n \in pressed : s.tracks[n] # None
  OBVIOUS
<1> HIDE DEF pressed, told
<1>3. \A i \in TrackSlots : after[i] # None =>
         s.tracks[i] # None /\ after[i].id = s.tracks[i].id /\ after[i].x = s.tracks[i].x
  <2> SUFFICES ASSUME NEW i \in TrackSlots, after[i] # None
               PROVE  s.tracks[i] # None /\ after[i].id = s.tracks[i].id /\ after[i].x = s.tracks[i].x
    OBVIOUS
  <2>1. CASE i \in pressed
    <3>1. s.tracks[i] \in TrackType /\ s.tracks[i] # None
      BY <1>2, <2>1, TrackParts
    <3>2. after[i] = [s.tracks[i] EXCEPT !.longPressed = TRUE]
      BY <2>1
    <3> QED
      BY <3>1, <3>2 DEF TrackType
  <2>2. CASE i \notin pressed
    BY <2>2
  <2> QED
    BY <2>1, <2>2
<1> HIDE DEF after
<1>4. /\ new \in LooseWork({after}, (PointerIds \X PointerIds) \cup {None}, Seq(Telling(T)))
      /\ new.tracks = after /\ new.ok = s.ok /\ s.ok \in BOOLEAN
  BY DEF Work, LooseWork
<1> HIDE DEF new
<1>5. r.tracks = after
  BY <1>4, EmitTracks
<1>6. r.ok => s.ok
  <2>1. CASE Len(new.out) + Len(told) <= MaxGestures
    <3>1. r = [new EXCEPT !.out = @ \o told]
      BY <2>1 DEF Emit
    <3>2. r.ok = new.ok
      BY <1>4, <3>1 DEF LooseWork
    <3> QED
      BY <1>4, <3>2
  <2>2. CASE ~(Len(new.out) + Len(told) <= MaxGestures)
    <3>1. r = [new EXCEPT !.ok = FALSE]
      BY <2>2 DEF Emit
    <3>2. ~r.ok
      BY <1>4, <3>1 DEF LooseWork
    <3> QED
      BY <3>2
  <2> QED
    BY <2>1, <2>2
<1> QED
  BY <1>1, <1>3, <1>5, <1>6 DEF SamePlaces

-----------------------------------------------------------------------------
(* What the first n events of a frame say of a pointer.                    *)

MentionsUpTo(F, n, id) == {i \in 1..n : F[i].id = id}

\* Where the first n events of the frame leave a pointer.
ReplayedUpTo(F, C, n, id) ==
    IF MentionsUpTo(F, n, id) = {} THEN C[id]
    ELSE IF F[LastOf(MentionsUpTo(F, n, id))].phase \in Ending THEN Unknown
         ELSE F[LastOf(MentionsUpTo(F, n, id))].x

\* Every pointer is where the first n events of the frame say.
Placed(w, F, C, n) == \A i \in TrackSlots :
    w.tracks[i] # None => w.tracks[i].x = ReplayedUpTo(F, C, n, w.tracks[i].id)

\* The next event is the last word about its pointer, and says nothing of the
\* others.
LEMMA ReplayedNext ==
    ASSUME NEW F, NEW C, NEW n \in Nat \ {0}, NEW id
    PROVE  /\ F[n].id = id /\ F[n].phase \in Ending => ReplayedUpTo(F, C, n, id) = Unknown
           /\ F[n].id = id /\ F[n].phase \notin Ending => ReplayedUpTo(F, C, n, id) = F[n].x
           /\ F[n].id # id => ReplayedUpTo(F, C, n, id) = ReplayedUpTo(F, C, n - 1, id)
<1> DEFINE M == MentionsUpTo(F, n, id)
<1>1. CASE F[n].id = id
  <2>1. M \in SUBSET Int /\ n \in M /\ \A j \in M : j <= n
    BY <1>1 DEF MentionsUpTo
  <2> HIDE DEF M
  <2>2. LastOf(M) = n /\ M # {}
    BY <2>1, LastIs
  <2> QED
    BY <1>1, <2>2 DEF ReplayedUpTo, M
<1>2. CASE F[n].id # id
  <2>1. M = MentionsUpTo(F, n - 1, id)
    BY <1>2 DEF MentionsUpTo
  <2> QED
    BY <1>2, <2>1 DEF ReplayedUpTo
<1> QED
  BY <1>1, <1>2

\* Over a whole batch, the pointers go where its events say.
LEMMA ProcessedPlaces ==
    ASSUME NEW T \in 0..MaxTime, NEW h \in HearType, NEW s \in SoundStates(T, h),
           NEW events \in Seq(RawEvents),
           \A i \in DOMAIN events : events[i].x # NonFinite /\ events[i].ts <= T,
           NEW C, Placed(s, events, C, 0), Processed(s, events).ok
    PROVE  Placed(Processed(s, events), events, C, Len(events))
<1> DEFINE N == Len(events)
           S == SoundStates(T, h)
<1>1. PICK f \in [0..N -> S] : Runs(f, s, N, events) /\ Processed(s, events) = f[N]
  BY ProcessedLoop
<1>2. f[0] = s /\ \A n \in 1..N : f[n] = EventTurn(f[n - 1], events[n])
  BY <1>1 DEF Runs
<1>3. N \in Nat /\ \A n \in 1..N : events[n] \in RawEvents /\ events[n].x # NonFinite /\ events[n].ts <= T
  BY LenProperties, ElementOfSeq
<1>4. \A n \in 0..N : f[n] \in S
  BY <1>1
<1> HIDE DEF N, S
<1> DEFINE A == {n \in 0..N : f[n].ok => Placed(f[n], events, C, n)}
<1>5. 0 \in A
  BY <1>2, <1>3
<1>6. ASSUME NEW n \in 1..N, n - 1 \in A PROVE n \in A
  <2> DEFINE w == f[n - 1]
             e == events[n]
             r == f[n]
  <2>1. n \in 0..N /\ n - 1 \in 0..N /\ n \in Nat \ {0}
    BY <1>3
  <2>2. r = EventTurn(w, e) /\ w \in S /\ e \in RawEvents /\ e.x # NonFinite /\ e.ts <= T
    BY <1>2, <1>3, <1>4, <2>1
  <2>3. w.ok => Placed(w, events, C, n - 1)
    BY <1>6
  <2> HIDE DEF w, r, A
  <2>4. ASSUME r.ok PROVE Placed(r, events, C, n)
    <3>1. w.ok
      BY <2>2, <2>4 DEF EventTurn
    <3>2. Follows(w, e, r)
      BY <2>2, <2>4, <3>1, EventTurnFollows DEF S
    <3> SUFFICES ASSUME NEW i \in TrackSlots, r.tracks[i] # None
                 PROVE  r.tracks[i].x = ReplayedUpTo(events, C, n, r.tracks[i].id)
      BY DEF Placed
    <3>3. CASE r.tracks[i].id = e.id /\ r.tracks[i].x = e.x /\ e.phase \notin Ending
      <4>1. \A id : e.id = id /\ e.phase \notin Ending => ReplayedUpTo(events, C, n, id) = e.x
        BY <2>1, ReplayedNext
      <4>2. ReplayedUpTo(events, C, n, r.tracks[i].id) = e.x
        BY <3>3, <4>1
      <4> QED
        BY <3>3, <4>2
    <3>4. CASE /\ w.tracks[i] # None /\ r.tracks[i].id # e.id
               /\ r.tracks[i].id = w.tracks[i].id /\ r.tracks[i].x = w.tracks[i].x
      <4>1. w.tracks[i].x = ReplayedUpTo(events, C, n - 1, w.tracks[i].id)
        BY <2>3, <3>1, <3>4 DEF Placed
      <4>2. \A id : e.id # id => ReplayedUpTo(events, C, n, id) = ReplayedUpTo(events, C, n - 1, id)
        BY <2>1, ReplayedNext
      <4>3. ReplayedUpTo(events, C, n, r.tracks[i].id) = ReplayedUpTo(events, C, n - 1, r.tracks[i].id)
        BY <3>4, <4>2
      <4> QED
        BY <3>4, <4>1, <4>3
    <3> QED
      BY <3>2, <3>3, <3>4 DEF Follows
  <2> QED
    BY <2>1, <2>4 DEF A, r
<1>7. N \in A
  <2>1. A \in SUBSET (0..N) /\ \A n \in 1..N : n - 1 \in A => n \in A
    BY <1>6
  <2> HIDE DEF A
  <2>2. A = 0..N
    BY <1>3, <1>5, <2>1, IntervalInduction
  <2> QED
    BY <1>3, <2>2
<1> QED
  BY <1>1, <1>7 DEF N

-----------------------------------------------------------------------------
(* The pipeline.                                                           *)

\* A frame whose events all lie between two times.
InTime(F, a, b) == \A i \in 1..Len(F) : F[i].ts \in a..b

\* The times of the shell, of the frame and of the recognizer, in the order
\* they must have.
TimesAgree ==
    /\ now \in 0..MaxTime /\ lastFrame <= now
    /\ lastEvent <= lastEventTime /\ lastEventTime <= now
    /\ InTime(frameEvents, lastEvent, now)

\* The inductive invariant of the pipeline.
PipelineInductive ==
    /\ TouchInv /\ GestureInductive /\ TimesAgree
    /\ bindings \in BindingLists /\ Len(actions) <= MaxActions
    /\ lastGestureTime \in 0..now
    /\ answer \in {"ok", "recognizer failed", "map failed"}
    /\ TracksFollowTheFrames

\* What the inductive invariant says of the types.
LEMMA PipelineTypes ==
    ASSUME PipelineInductive
    PROVE  /\ frameEvents \in Seq(PointerEvents) /\ frameEvents \in Seq(RawEvents)
           /\ Len(frameEvents) \in Nat
           /\ touchSurface \in 0..MaxSurface /\ lastEventTime \in 0..MaxTime
           /\ now \in 0..MaxTime /\ now \in Nat /\ MaxTime \in Nat
           /\ lastFrame \in 0..MaxTime /\ lastEvent \in 0..MaxTime
           /\ TouchTypeOK /\ SurfaceIsNewest /\ heard \in HearType
           /\ batch \in {"closed", "open"}
<1>1. TouchTypeOK /\ SurfaceIsNewest /\ batch # "internalError"
  BY DEF PipelineInductive, TouchInv, TouchInvariant, CleanupSucceeds
<1>2. /\ frameEvents \in Seq(PointerEvents) /\ Len(frameEvents) \in Nat
      /\ touchSurface \in 0..MaxSurface /\ lastEventTime \in 0..MaxTime
      /\ batch \in {"closed", "open"}
  BY <1>1, TouchTypes, LenProperties, CapacityAssumption
<1>3. frameEvents \in Seq(RawEvents)
  <2>1. PointerEvents \subseteq RawEvents
    BY BoundAssumption DEF PointerEvents, RawEvents
  <2>2. \A i \in 1..Len(frameEvents) : frameEvents[i] \in RawEvents
    BY <1>2, <2>1, ElementOfSeq
  <2> QED
    BY <1>2, <2>2, IsASeq, LenProperties
<1>4. lastFrame \in 0..MaxTime /\ lastEvent \in 0..MaxTime /\ heard \in HearType
  <2>1. GestureInductive
    BY DEF PipelineInductive
  <2>2. MaxTime \in Nat
    BY BoundAssumption
  <2>3. lastFrame \in 0..MaxTime /\ lastEvent \in 0..lastFrame /\ heard \in HearType
    BY <2>1 DEF GestureInductive
  <2> QED
    BY <2>2, <2>3
<1>5. now \in 0..MaxTime /\ now \in Nat /\ MaxTime \in Nat
  <2>1. TimesAgree
    BY DEF PipelineInductive
  <2>2. now \in 0..MaxTime
    BY <2>1 DEF TimesAgree
  <2> QED
    BY <2>2, BoundAssumption
<1> QED
  BY <1>1, <1>2, <1>3, <1>4, <1>5

\* It holds at first.
LEMMA PipelineInitInductive == PipelineInit => PipelineInductive
<1> SUFFICES ASSUME PipelineInit PROVE PipelineInductive
  OBVIOUS
<1>1. TouchInv /\ GestureInductive
  BY TouchInitInv, GestureInitInductive DEF PipelineInit
<1>2. /\ frameEvents = <<>> /\ lastEventTime = 0 /\ lastEvent = 0 /\ lastFrame = 0 /\ now = 0
      /\ tracks = NoTracks /\ answer = "ok"
  BY DEF PipelineInit, TouchInit, GestureInit
<1>3. TimesAgree
  BY <1>2, BoundAssumption DEF TimesAgree, InTime
<1>4. TracksFollowTheFrames
  BY <1>2 DEF TracksFollowTheFrames, NoTracks
<1>5. bindings \in BindingLists /\ actions = <<>> /\ lastGestureTime = 0
  BY DEF PipelineInit, ActionInit
<1>6. Len(actions) <= MaxActions /\ lastGestureTime \in 0..now
  BY <1>2, <1>5, ActionMapAssumption
<1> QED
  BY <1>1, <1>2, <1>3, <1>4, <1>5, <1>6 DEF PipelineInductive

\* Cancelling leaves a frame that lies between the same times.
LEMMA CancelInTime ==
    ASSUME TouchTypeOK, SurfaceIsNewest, NEW events \in Seq(PointerEvents),
           NEW a \in Nat, NEW b \in Nat, NEW ts \in 0..MaxTime, ts \in a..b, InTime(events, a, b),
           CancelPointers(ts, events)
    PROVE  InTime(frameEvents', a, b)
<1>1. CASE activePointers = <<>>
  <2>1. Cancellations(ts) = <<>>
    BY <1>1 DEF Cancellations, Slots
  <2>2. frameEvents' = events \o <<>>
    BY <2>1 DEF CancelPointers
  <2>3. frameEvents' = events
    BY <2>2, ConcatEmptySeq
  <2> QED
    BY <2>3
<1>2. CASE activePointers # <<>>
  <2> DEFINE c == Cancellations(ts)
             n == Len(events)
             m == Len(c)
  <2>1. c \in Seq(PointerEvents) /\ n \in Nat /\ m \in Nat /\ \A i \in 1..m : c[i].ts = ts
    BY <1>2, CancellationsType, LenProperties DEF Slots
  <2>2. frameEvents' = events \o c
    BY DEF CancelPointers
  <2> HIDE DEF c
  <2>3. /\ Len(events \o c) = n + m
        /\ \A i \in 1..(n + m) : (events \o c)[i] = IF i <= n THEN events[i] ELSE c[i - n]
    BY <2>1, ConcatProperties
  <2> HIDE DEF n, m
  <2>4. ASSUME NEW i \in 1..(n + m) PROVE (events \o c)[i].ts \in a..b
    <3>1. CASE i <= n
      <4>1. i \in 1..n /\ (events \o c)[i] = events[i]
        BY <2>1, <2>3, <2>4, <3>1
      <4> QED
        BY <4>1 DEF InTime, n
    <3>2. CASE ~(i <= n)
      <4>1. i - n \in 1..m /\ (events \o c)[i] = c[i - n]
        BY <2>1, <2>3, <2>4, <3>2
      <4>2. c[i - n].ts = ts
        BY <2>1, <4>1
      <4> QED
        BY <4>1, <4>2
    <3> QED
      BY <3>1, <3>2
  <2> QED
    BY <2>2, <2>3, <2>4 DEF InTime
<1> QED
  BY <1>1, <1>2

\* What the shell does is a step of the touch input.
LEMMA ShellIsTouch ==
    ASSUME PipelineInductive, Shell
    PROVE  TouchNext
<1>1. touchSurface # 0 => touchSurface \in 1..MaxSurface
  BY PipelineTypes, BoundAssumption
<1>2. now \in 0..MaxTime
  BY PipelineTypes
<1> QED
  BY <1>1, <1>2 DEF Shell, TouchNext

\* It keeps the times in order.
LEMMA ShellTimes ==
    ASSUME PipelineInductive, Shell
    PROVE  TimesAgree'
<1>1. /\ now' = now /\ lastFrame' = lastFrame /\ lastEvent' = lastEvent
  BY DEF Shell, gestureVars, recognizerVars
<1>2. /\ now \in 0..MaxTime /\ lastFrame <= now /\ lastEvent <= lastEventTime /\ lastEventTime <= now
      /\ InTime(frameEvents, lastEvent, now)
  BY DEF PipelineInductive, TimesAgree
<1>3. /\ frameEvents \in Seq(PointerEvents) /\ TouchTypeOK /\ SurfaceIsNewest /\ now \in Nat
      /\ lastEvent \in Nat /\ lastEventTime \in 0..MaxTime /\ lastFrame \in 0..MaxTime
  BY PipelineTypes
<1> SUFFICES /\ lastEvent <= lastEventTime' /\ lastEventTime' <= now
             /\ InTime(frameEvents', lastEvent, now)
  BY <1>1, <1>2 DEF TimesAgree, InTime
<1>4. CASE \E g \in 1..MaxSurface : AttachSurface(g)
  BY <1>2, <1>4 DEF AttachSurface
<1>5. CASE CancelWithRetry(now)
  <2>1. PICK events \in {frameEvents, <<>>} : CancelPointers(now, events)
    BY <1>5 DEF CancelWithRetry
  <2>2. events \in Seq(PointerEvents) /\ InTime(events, lastEvent, now)
    <3>1. CASE events = frameEvents
      BY <1>2, <1>3, <3>1
    <3>2. CASE events = <<>>
      BY <3>2 DEF InTime
    <3> QED
      BY <3>1, <3>2
  <2>3. now \in lastEvent..now
    BY <1>2, <1>3
  <2>4. InTime(frameEvents', lastEvent, now)
    BY <1>2, <1>3, <2>1, <2>2, <2>3, CancelInTime
  <2>5. lastEventTime' \in {lastEventTime, now}
    BY <2>1 DEF CancelPointers
  <2> QED
    BY <1>2, <1>3, <2>4, <2>5
<1>6. ASSUME NEW e \in PointerEvents, e.ts <= now, Process(e)
      PROVE  /\ lastEvent <= lastEventTime' /\ lastEventTime' <= now
             /\ InTime(frameEvents', lastEvent, now)
  <2>1. e.ts >= lastEventTime /\ lastEventTime' = e.ts /\ frameEvents' = Append(frameEvents, e)
    BY <1>6 DEF Process, Accepts
  <2>2. e.ts \in 0..MaxTime
    BY EventTypes
  <2>3. Append(frameEvents, e) = [i \in 1..(Len(frameEvents) + 1) |->
                                    IF i = Len(frameEvents) + 1 THEN e ELSE frameEvents[i]]
    BY <1>3, AppendAsFunction
  <2>4. Len(Append(frameEvents, e)) = Len(frameEvents) + 1
    BY <1>3, AppendProperties
  <2>5. Len(frameEvents) \in Nat
    BY PipelineTypes
  <2>6. e.ts \in lastEvent..now
    BY <1>2, <1>3, <1>6, <2>1, <2>2
  <2>7. ASSUME NEW i \in 1..(Len(frameEvents) + 1) PROVE frameEvents'[i].ts \in lastEvent..now
    <3>1. CASE i = Len(frameEvents) + 1
      BY <2>1, <2>3, <2>6, <3>1
    <3>2. CASE i # Len(frameEvents) + 1
      <4>1. i \in 1..Len(frameEvents) /\ frameEvents'[i] = frameEvents[i]
        BY <2>1, <2>3, <2>5, <3>2
      <4> QED
        BY <1>2, <4>1 DEF InTime
    <3> QED
      BY <3>1, <3>2
  <2>8. InTime(frameEvents', lastEvent, now)
    BY <2>1, <2>4, <2>7 DEF InTime
  <2> QED
    BY <1>2, <1>3, <1>6, <2>1, <2>2, <2>8
<1>7. CASE BatchRejected
  <2>1. CancelPointers(lastEventTime, <<>>)
    BY <1>7, RejectedStep DEF PipelineInductive
  <2>2. <<>> \in Seq(PointerEvents) /\ InTime(<<>>, lastEvent, now) /\ lastEventTime \in lastEvent..now
    BY <1>2, <1>3 DEF InTime
  <2>3. InTime(frameEvents', lastEvent, now)
    BY <1>3, <2>1, <2>2, CancelInTime
  <2>4. lastEventTime' = lastEventTime
    BY <2>1 DEF CancelPointers
  <2> QED
    BY <1>2, <2>3, <2>4
<1>8. CASE BatchEnds
  BY <1>2, <1>8 DEF BatchEnds, inputVars
<1> QED
  BY <1>4, <1>5, <1>6, <1>7, <1>8 DEF Shell, DetachSurface, CancelTouchInput

\* A step of the shell keeps the inductive invariant of the pipeline.
LEMMA ShellInductive == PipelineInductive /\ Shell => PipelineInductive'
<1> SUFFICES ASSUME PipelineInductive, Shell PROVE PipelineInductive'
  OBVIOUS
<1>1. UNCHANGED gestureVars /\ UNCHANGED actionVars /\ now' = now /\ answer' = answer
  BY DEF Shell
<1>2. TouchInv'
  BY ShellIsTouch, TouchStepInv DEF PipelineInductive
<1>3. GestureInductive'
  BY <1>1, GestureUnchanged DEF PipelineInductive
<1>4. TimesAgree'
  BY ShellTimes
<1>5. /\ bindings' = bindings /\ actions' = actions /\ lastGestureTime' = lastGestureTime
      /\ tracks' = tracks
  BY <1>1 DEF actionVars, gestureVars, recognizerVars
<1>6. consumer' = consumer
  BY DEF Shell, AttachSurface, DetachSurface, CancelTouchInput, Process, BatchRejected, BatchEnds
<1>7. TracksFollowTheFrames'
  <2>1. TracksFollowTheFrames
    BY DEF PipelineInductive
  <2> QED
    BY <1>5, <1>6, <2>1 DEF TracksFollowTheFrames
<1>8. bindings' \in BindingLists /\ Len(actions') <= MaxActions /\ lastGestureTime' \in 0..now'
      /\ answer' \in {"ok", "recognizer failed", "map failed"}
  BY <1>1, <1>5 DEF PipelineInductive
<1> QED
  BY <1>2, <1>3, <1>4, <1>7, <1>8 DEF PipelineInductive

\* The game rebinds its actions, or time passes.
LEMMA RebindInductive ==
    PipelineInductive /\ (Rebind \/ ClockAdvances \/ UNCHANGED pipelineVars) => PipelineInductive'
<1> SUFFICES ASSUME PipelineInductive, Rebind \/ ClockAdvances \/ UNCHANGED pipelineVars
             PROVE  PipelineInductive'
  OBVIOUS
<1>1. UNCHANGED gestureVars /\ UNCHANGED touchVars /\ answer' = answer
  BY DEF Rebind, ClockAdvances, pipelineVars
<1>2. TouchInv'
  BY <1>1, BatchEndsStep DEF PipelineInductive
<1>3. GestureInductive'
  BY <1>1, GestureUnchanged DEF PipelineInductive
<1>4. /\ now \in 0..MaxTime /\ MaxTime \in Nat
      /\ frameEvents \in Seq(PointerEvents) /\ lastFrame \in 0..MaxTime /\ lastEventTime \in 0..MaxTime
      /\ lastEvent \in 0..MaxTime
  BY PipelineTypes
<1>5. now' \in now..MaxTime
  BY <1>4 DEF Rebind, ClockAdvances, pipelineVars
<1>6. /\ tracks' = tracks /\ consumer' = consumer /\ frameEvents' = frameEvents
      /\ lastEventTime' = lastEventTime /\ lastFrame' = lastFrame /\ lastEvent' = lastEvent
  BY <1>1 DEF gestureVars, recognizerVars, touchVars, inputVars
<1>7. TimesAgree'
  <2>1. /\ lastFrame <= now /\ lastEvent <= lastEventTime /\ lastEventTime <= now
        /\ InTime(frameEvents, lastEvent, now)
    BY DEF PipelineInductive, TimesAgree
  <2>2. /\ lastFrame' <= now' /\ lastEvent' <= lastEventTime' /\ lastEventTime' <= now'
        /\ now' \in 0..MaxTime
    BY <1>4, <1>5, <1>6, <2>1
  <2>3. \A t \in lastEvent..now : t \in lastEvent..now'
    BY <1>4, <1>5
  <2>4. InTime(frameEvents, lastEvent, now')
    BY <2>1, <2>3 DEF InTime
  <2> QED
    BY <1>6, <2>2, <2>4 DEF TimesAgree, InTime
<1>8. TracksFollowTheFrames'
  <2>1. TracksFollowTheFrames
    BY DEF PipelineInductive
  <2> QED
    BY <1>6, <2>1 DEF TracksFollowTheFrames
<1>9. bindings' \in BindingLists /\ Len(actions') <= MaxActions /\ lastGestureTime' \in 0..now
      /\ answer' \in {"ok", "recognizer failed", "map failed"}
  <2>1. /\ bindings \in BindingLists /\ Len(actions) <= MaxActions /\ lastGestureTime \in 0..now
        /\ answer \in {"ok", "recognizer failed", "map failed"}
    BY DEF PipelineInductive
  <2>2. CASE Rebind
    <3>1. bindings' \in BindingLists /\ actions' = <<>> /\ lastGestureTime' = lastGestureTime
      BY <2>2 DEF Rebind, ReplaceBindings
    <3>2. Len(actions') <= MaxActions
      <4>1. Len(actions') = 0 /\ MaxActions \in Nat
        BY <3>1, ActionMapAssumption
      <4> QED
        BY <4>1
    <3> QED
      BY <1>1, <2>1, <3>1, <3>2
  <2>3. CASE ClockAdvances \/ UNCHANGED pipelineVars
    <3>1. UNCHANGED actionVars
      BY <2>3 DEF ClockAdvances, pipelineVars
    <3>2. bindings' = bindings /\ actions' = actions /\ lastGestureTime' = lastGestureTime
      BY <3>1 DEF actionVars
    <3> QED
      BY <1>1, <2>1, <3>2
  <2> QED
    BY <2>2, <2>3
<1>10. lastGestureTime' \in 0..now'
  <2>1. lastGestureTime' \in 0..now
    BY <1>9
  <2> QED
    BY <1>4, <1>5, <2>1
<1> QED
  BY <1>2, <1>3, <1>7, <1>8, <1>9, <1>10 DEF PipelineInductive

-----------------------------------------------------------------------------
(* A frame of the pipeline.                                                *)

\* What a frame does with each of the three parts.
LEMMA FrameActs ==
    ASSUME PipelineInductive, ProcessFrame
    PROVE  /\ TouchInv' /\ GestureInductive'
           /\ now' = now /\ frameEvents' = <<>> /\ lastEventTime' = lastEventTime
           /\ consumer' = [id \in PointerIds |-> Replayed(id)]
           /\ Update(frameEvents, now, touchSurface)
<1>1. /\ frameEvents \in Seq(RawEvents) /\ now \in 0..MaxTime /\ touchSurface \in 0..MaxSurface
      /\ TouchInv /\ GestureInductive
  BY PipelineTypes DEF PipelineInductive
<1>2. Update(frameEvents, now, touchSurface) /\ ProcessInputFrame /\ now' = now
  BY DEF ProcessFrame
<1>3. TouchInv'
  BY <1>1, <1>2, FrameStep
<1>4. GestureInductive'
  BY <1>1, <1>2, UpdateInductive
<1> QED
  BY <1>2, <1>3, <1>4 DEF ProcessInputFrame, BeginFrame

\* After a frame the recognizer has seen what the touch input accepted, up to
\* the time of the frame, or nothing.
LEMMA FrameTimes ==
    ASSUME PipelineInductive, ProcessFrame
    PROVE  TimesAgree'
<1>1. /\ now' = now /\ frameEvents' = <<>> /\ lastEventTime' = lastEventTime
      /\ Update(frameEvents, now, touchSurface)
  BY FrameActs
<1>2. /\ now \in 0..MaxTime /\ lastEventTime \in 0..MaxTime /\ lastEvent <= lastEventTime
      /\ lastEventTime <= now /\ frameEvents \in Seq(PointerEvents)
  BY PipelineTypes DEF PipelineInductive, TimesAgree
<1>3. frameEvents # <<>> => frameEvents[Len(frameEvents)].ts <= lastEventTime
  BY DEF PipelineInductive, TouchInv, TouchInvariant, FrameIsOrdered
<1>4. lastFrame' \in {now, 0}
      /\ (\/ lastEvent' = 0 \/ lastEvent' = lastEvent
          \/ frameEvents # <<>> /\ lastEvent' = frameEvents[Len(frameEvents)].ts)
  BY <1>1 DEF Update, Deliver, Reset
<1>5. lastFrame' <= now /\ lastEvent' <= lastEventTime
  BY <1>2, <1>3, <1>4
<1>6. InTime(<<>>, lastEvent', now)
  BY DEF InTime
<1> QED
  BY <1>1, <1>2, <1>5, <1>6 DEF TimesAgree, InTime

\* What the frame makes of the actions.
LEMMA FrameActions ==
    ASSUME PipelineInductive, ProcessFrame
    PROVE  /\ bindings' \in BindingLists /\ Len(actions') <= MaxActions
           /\ lastGestureTime' \in 0..now'
           /\ answer' \in {"ok", "recognizer failed", "map failed"}
<1>1. /\ now' = now /\ GestureInductive' /\ now \in 0..MaxTime
      /\ Update(frameEvents, now, touchSurface)
  BY FrameActs, PipelineTypes
<1>2. /\ bindings \in BindingLists /\ Len(actions) <= MaxActions /\ lastGestureTime \in 0..now
  BY DEF PipelineInductive
<1> DEFINE s == Updated(frameEvents, now, touchSurface)
<1>3. CASE ~s.ok
  BY <1>1, <1>2, <1>3 DEF ProcessFrame, actionVars
<1>4. CASE s.ok
  <2>1. UpdateActions(gestures') /\ answer' \in {"ok", "map failed"}
    BY <1>4 DEF ProcessFrame
  <2>2. lastFrame' = now
    BY <1>1, <1>4 DEF Update, Deliver
  <2>3. gestures' \in Seq(Telling(now))
    BY <1>1, <2>2 DEF GestureInductive
  <2>4. CASE AcceptsGestures(gestures')
    <3>1. /\ bindings' = bindings /\ actions' = Mapped(gestures') /\ Len(Mapped(gestures')) <= MaxActions
          /\ lastGestureTime' = IF gestures' = <<>> THEN lastGestureTime
                                ELSE gestures'[Len(gestures')].ts
      BY <2>1, <2>4 DEF UpdateActions, AcceptsGestures
    <3>2. gestures' # <<>> => gestures'[Len(gestures')].ts \in 0..now
      <4>1. gestures' # <<>> => gestures'[Len(gestures')] \in Telling(now)
        BY <2>3, EmptySeq, LenProperties, ElementOfSeq
      <4> QED
        BY <4>1 DEF Telling
    <3>3. lastGestureTime' \in 0..now
      BY <1>2, <3>1, <3>2
    <3> QED
      BY <1>1, <1>2, <2>1, <3>1, <3>3
  <2>5. CASE ~AcceptsGestures(gestures')
    <3>1. bindings' = bindings /\ actions' = <<>> /\ lastGestureTime' = lastGestureTime
      BY <2>1, <2>5 DEF UpdateActions
    <3>2. Len(actions') <= MaxActions
      <4>1. Len(actions') = 0 /\ MaxActions \in Nat
        BY <3>1, ActionMapAssumption
      <4> QED
        BY <4>1
    <3> QED
      BY <1>1, <1>2, <2>1, <3>1, <3>2
  <2> QED
    BY <2>4, <2>5
<1> QED
  BY <1>3, <1>4

\* With no event of the frame yet, every track is where the game left it.
LEMMA PlacedBefore ==
    ASSUME NEW w, NEW F, NEW C, \A i \in TrackSlots : w.tracks[i] # None => C[w.tracks[i].id] = w.tracks[i].x
    PROVE  Placed(w, F, C, 0)
<1>1. \A id : MentionsUpTo(F, 0, id) = {}
  BY DEF MentionsUpTo
<1> QED
  BY <1>1 DEF Placed, ReplayedUpTo

\* Cancelling every track leaves none.
LEMMA CancelledTracks ==
    ASSUME NEW T \in Nat, NEW s \in Work(T), NEW ts
    PROVE  CancelTrackedPointers(s, ts).tracks = NoTracks
<1> DEFINE ended == EndPinch(s, ts, TRUE)
           bare == [ended EXCEPT !.tracks = NoTracks]
           told == ForSlots(s, TrackSlots \ FreeSlots(s), Cancelled(Gesture("Cancelled", <<>>, ts)))
<1>1. CancelTrackedPointers(s, ts) = Emit(bare, told)
  BY DEF CancelTrackedPointers
<1>2. \E B, O : s \in LooseWork(TypedTracks, B, O)
  BY WorkIsLoose
<1>3. \E B, O : ended \in LooseWork(TypedTracks, B, O)
  BY <1>2, EndPinchTracks
<1> HIDE DEF ended
<1>4. PICK B, O : ended \in LooseWork(TypedTracks, B, O)
  BY <1>3
<1>5. bare \in LooseWork({NoTracks}, B, O) /\ bare.tracks = NoTracks
  BY <1>4 DEF LooseWork
<1> HIDE DEF bare, told
<1>6. Emit(bare, told).tracks = bare.tracks
  BY <1>5, EmitTracks
<1> QED
  BY <1>1, <1>5, <1>6

\* After a frame the recognizer's pointers are where the frame left them.
LEMMA FrameTracks ==
    ASSUME PipelineInductive, ProcessFrame
    PROVE  TracksFollowTheFrames'
<1> DEFINE F == frameEvents
           T == now
           C == consumer
           N == Len(frameEvents)
           s == Updated(frameEvents, now, touchSurface)
<1>1. /\ consumer' = [id \in PointerIds |-> Replayed(id)] /\ GestureInductive'
      /\ Update(F, T, touchSurface)
  BY FrameActs
<1>2. CASE ~s.ok
  <2>1. tracks' = NoTracks
    BY <1>1, <1>2 DEF Update, Reset
  <2> QED
    BY <2>1 DEF TracksFollowTheFrames, NoTracks
<1>3. CASE s.ok
  <2>1. /\ F \in Seq(RawEvents) /\ T \in 0..MaxTime /\ T \in Nat /\ heard \in HearType
    BY PipelineTypes
  <2>2. Kept \in Work(T) /\ Fits(Kept, heard)
    <3>1. Kept \in Work(MaxTime) /\ Fits(Kept, heard)
      BY DEF PipelineInductive, GestureInductive
    <3>2. <<>> \in Seq(Telling(T))
      OBVIOUS
    <3> QED
      BY <3>1, <3>2 DEF Kept, Work
  <2>3. ~(T < lastFrame) /\ ValidBatch(F, T, touchSurface)
    BY <1>3, <2>1, <2>2, UpdatedSound
  <2> DEFINE surfaced == Surfaced(T, touchSurface)
             done == Processed(surfaced, F)
  <2>4. /\ surfaced \in SoundStates(T, heard) /\ done \in SoundStates(T, heard)
        /\ s = RecognizeLongPresses(done, T)
    BY <2>1, <2>2, <2>3, ValidRuns
  <2>5. \A i \in TrackSlots : surfaced.tracks[i] # None =>
            C[surfaced.tracks[i].id] = surfaced.tracks[i].x
    <3>1. CASE surfaced = Kept
      <4>1. surfaced.tracks = tracks
        BY <3>1 DEF Kept
      <4>2. TracksFollowTheFrames
        BY DEF PipelineInductive
      <4> QED
        BY <4>1, <4>2 DEF TracksFollowTheFrames
    <3>2. CASE surfaced = [CancelTrackedPointers(Kept, T) EXCEPT !.tap = None]
      <4> DEFINE cancelled == CancelTrackedPointers(Kept, T)
      <4>1. cancelled.tracks = NoTracks
        BY <2>1, <2>2, CancelledTracks
      <4> HIDE DEF cancelled
      <4>2. surfaced.tracks = NoTracks
        BY <3>2, <4>1 DEF cancelled
      <4> QED
        BY <4>2 DEF NoTracks
    <3> QED
      BY <3>1, <3>2 DEF Surfaced
  <2> HIDE DEF surfaced
  <2>6. Placed(surfaced, F, C, 0)
    BY <2>5, PlacedBefore
  <2>7. SamePlaces(done, s) /\ done.ok
    <3>1. done \in Work(T)
      BY <2>4 DEF SoundStates
    <3> HIDE DEF done, s
    <3> QED
      BY <1>3, <2>1, <2>4, <3>1, RecognizeLongPressesPlaces
  <2>8. \A i \in DOMAIN F : F[i].x # NonFinite /\ F[i].ts <= T
    BY <2>1, <2>3, ValidEvents
  <2>9. Placed(done, F, C, N)
    BY <2>1, <2>4, <2>6, <2>7, <2>8, ProcessedPlaces
  <2>10. tracks' = s.tracks
    BY <1>1, <1>3 DEF Update, Deliver
  <2>11. tracks' \in [TrackSlots -> TrackType \cup {None}]
    BY <1>1 DEF GestureInductive, Kept, Work
  <2> HIDE DEF done, s
  <2> SUFFICES ASSUME NEW i \in TrackSlots, tracks'[i] # None
               PROVE  consumer'[tracks'[i].id] = tracks'[i].x
    BY DEF TracksFollowTheFrames
  <2>12. tracks'[i].id \in PointerIds
    BY <2>11 DEF TrackType
  <2>13. tracks'[i].x = ReplayedUpTo(F, C, N, tracks'[i].id)
    BY <2>7, <2>9, <2>10 DEF SamePlaces, Placed
  <2>14. \A id \in PointerIds : ReplayedUpTo(F, C, N, id) = Replayed(id)
    BY DEF ReplayedUpTo, MentionsUpTo, Replayed, Mentions
  <2> QED
    BY <1>1, <2>12, <2>13, <2>14
<1> QED
  BY <1>2, <1>3

\* A step of the pipeline keeps its inductive invariant.
LEMMA PipelineStepInductive ==
    PipelineInductive /\ [PipelineNext]_pipelineVars => PipelineInductive'
<1> SUFFICES ASSUME PipelineInductive, [PipelineNext]_pipelineVars PROVE PipelineInductive'
  OBVIOUS
<1>1. CASE ProcessFrame
  <2>1. TouchInv' /\ GestureInductive' /\ TimesAgree' /\ TracksFollowTheFrames'
    BY <1>1, FrameActs, FrameTimes, FrameTracks
  <2>2. /\ bindings' \in BindingLists /\ Len(actions') <= MaxActions
        /\ lastGestureTime' \in 0..now'
        /\ answer' \in {"ok", "recognizer failed", "map failed"}
    BY <1>1, FrameActions
  <2> QED
    BY <2>1, <2>2 DEF PipelineInductive
<1>2. CASE Shell
  BY <1>2, ShellInductive
<1>3. CASE Rebind \/ ClockAdvances \/ UNCHANGED pipelineVars
  BY <1>3, RebindInductive
<1> QED
  BY <1>1, <1>2, <1>3 DEF PipelineNext

\* What the inductive invariant says to a reader.
LEMMA PipelineInductiveImplies == PipelineInductive => PipelineInvariant /\ TracksFollowTheFrames
<1> SUFFICES ASSUME PipelineInductive PROVE PipelineInvariant /\ TracksFollowTheFrames
  OBVIOUS
<1>1. TouchTypeOK /\ GestureInductive /\ TracksFollowTheFrames
  BY PipelineTypes DEF PipelineInductive
<1>2. GestureTypeOK
  BY <1>1, GestureInductiveImplies DEF GestureInvariant
<1>3. FrameIsInTime /\ now \in 0..MaxTime
  BY DEF PipelineInductive, TimesAgree, FrameIsInTime, InTime
<1>4. /\ bindings \in BindingLists /\ Len(actions) <= MaxActions /\ lastGestureTime \in 0..now
      /\ answer \in {"ok", "recognizer failed", "map failed"}
  BY DEF PipelineInductive
<1> QED
  BY <1>1, <1>2, <1>3, <1>4 DEF PipelineInvariant, PipelineTypeOK

\* Touch input, recognizer and action map together, for any shell and any
\* game: their types hold and the times of the three agree.
THEOREM PipelineAlwaysInductive == PipelineSpec => []PipelineInductive
<1>1. PipelineInit => PipelineInductive
  BY PipelineInitInductive
<1>2. PipelineInductive /\ [PipelineNext]_pipelineVars => PipelineInductive'
  BY PipelineStepInductive
<1> QED
  BY <1>1, <1>2, PTL DEF PipelineSpec

\* No frame ever makes update reset for a timestamp, and the buffers of all
\* three parts stay within their capacities (cancel_all, process, update).
THEOREM PipelineAlwaysInTime == PipelineSpec => []PipelineInvariant
<1>1. PipelineInductive => PipelineInvariant
  BY PipelineInductiveImplies
<1> QED
  BY <1>1, PipelineAlwaysInductive, PTL

\* The recognizer and the game always agree on where a tracked pointer is.
THEOREM TracksAlwaysFollowTheFrames == PipelineSpec => []TracksFollowTheFrames
<1>1. PipelineInductive => TracksFollowTheFrames
  BY PipelineInductiveImplies
<1> QED
  BY <1>1, PipelineAlwaysInductive, PTL

-----------------------------------------------------------------------------
(* The parts inside the pipeline.                                          *)

\* The pipeline is a touch input to its shell.
THEOREM PipelineImplementsTouch == PipelineSpec => TouchSpec
<1>1. PipelineInit => TouchInit
  BY DEF PipelineInit
<1>2. PipelineInductive /\ [PipelineNext]_pipelineVars => [TouchNext]_touchVars
  <2> SUFFICES ASSUME PipelineInductive, [PipelineNext]_pipelineVars PROVE [TouchNext]_touchVars
    OBVIOUS
  <2>1. CASE ProcessFrame
    BY <2>1 DEF ProcessFrame, TouchNext
  <2>2. CASE Shell
    BY <2>2, ShellIsTouch
  <2>3. CASE Rebind \/ ClockAdvances \/ UNCHANGED pipelineVars
    BY <2>3 DEF Rebind, ClockAdvances, pipelineVars
  <2> QED
    BY <2>1, <2>2, <2>3 DEF PipelineNext
<1> QED
  BY <1>1, <1>2, PipelineAlwaysInductive, PTL DEF PipelineSpec, TouchSpec

\* The pipeline is a caller of the recognizer, so its gestures are told in
\* order and none is forgotten.
THEOREM PipelineImplementsGestures == PipelineSpec => GestureSpec
<1>1. PipelineInit => GestureInit
  BY DEF PipelineInit
<1>2. PipelineInductive /\ [PipelineNext]_pipelineVars => [GestureNext]_gestureVars
  <2> SUFFICES ASSUME PipelineInductive, [PipelineNext]_pipelineVars PROVE [GestureNext]_gestureVars
    OBVIOUS
  <2>1. CASE ProcessFrame
    <3>1. Update(frameEvents, now, touchSurface)
      BY <2>1 DEF ProcessFrame
    <3>2. frameEvents \in Seq(RawEvents) /\ now \in 0..MaxTime /\ touchSurface \in 0..MaxSurface
      BY PipelineTypes
    <3> QED
      BY <3>1, <3>2 DEF GestureNext
  <2>2. CASE Shell \/ Rebind \/ ClockAdvances \/ UNCHANGED pipelineVars
    BY <2>2 DEF Shell, Rebind, ClockAdvances, pipelineVars
  <2> QED
    BY <2>1, <2>2 DEF PipelineNext
<1> QED
  BY <1>1, <1>2, PipelineAlwaysInductive, PTL DEF PipelineSpec, GestureSpec
=============================================================================
