# StormEngine in TLA+

TLA+ specifications of the parts of StormEngine that decide, order and count
things: the presentation lifecycle and its surface, the frame driver, the path
of a touch from the operating system to a game action, the two packaged shells,
the lock-free budget and the event queue, scenes and their entities, their
archives, the physics on a line and in the plane, and the event dispatcher. TLC
checks each of them on a small instance; for most of them TLAPS proves the safety
properties for every value of the constants (section 4 says for which).

Every module opens with the source files it is translated from, and
`PROJECT.json` maps each definition to the lines it models.

    tlc -workers 2 -config FrameDriver.cfg MCFrameDriver.tla     # a run
    tlapm SceneProofs.tla                                        # a proof

## 1. The system

StormEngine is a C++20 engine for mobile games. Almost all of it runs on one
*owning thread* per presentation (an Android Activity, a UIKit scene). What is
hard about it is therefore rarely a data race: it is the order in which the
operating system calls, callbacks that change what their caller is working on,
operations that fail half-way and must leave a usable state, bounded buffers,
counters that end, and handles that outlive what they name. Two places are
concurrent: `MemoryBudget` and the counter of scene identifiers, both lock-free;
a third, `LifecycleEventQueue`, is shared under a mutex.

| Component | State | Operations | Called by, calls | What is hard | What makes it correct |
|---|---|---|---|---|---|
| Presentation lifecycle (`lifecycle.cpp`, Android and iOS adapters) | one of five states, a revision | `transition_to`, `apply_activity_event`, `apply_scene_event`, `application_will_terminate` | called by the shells; read by the frame driver | handlers of two requests of which the second fails; a saturating revision | nothing moves without the revision; a loss of focus stops the loop |
| Surface lifecycle (`surface_lifecycle.cpp`) | current descriptor, last generation | attach, resize, detach | shells; read by the frame driver and the touch input | delayed callbacks for a replaced surface | only the generation tells two surfaces apart |
| Frame driver (`mobile_frame_driver.cpp`, `game_loop.cpp`, `fixed_step_scheduler.cpp`) | previous timestamp, revision and generation; accumulator | tick, `reset_timing`; five application callbacks per frame | the platform's frame source; calls the game | callbacks pump native events, reset the driver, fail; clocks that jump or leave the range | the simulation never receives time in which the app was not active |
| Touch input (`touch_input.cpp`, `touch_input_game_loop_adapter.cpp`) | active pointers, frame buffer, surface generation, last timestamp | attach, detach, `process`, `process_batch`, `cancel_all`, `begin_frame`, `process_input` | shells; game loop | rejected batches clean up at full buffers; two clocks stamp events | the frames explain the pointers; the clean-up cannot fail |
| Gesture recognizer (`gesture_recognizer.cpp`) | tracks, pinch, last tap, times, output | `update`, `reset` | gesture action pipeline | two fingers pass between tap, drag and pinch; surface changes; overflowing output | every gesture begun is ended once |
| Input action map (`input_action_map.cpp`) | bindings, output, last time | `update`, `replace_bindings` | gesture action pipeline | all-or-nothing batches, rebinding | actions are those of present bindings |
| Gesture action pipeline (`gesture_action_input_pipeline.cpp`) | the two above | `process_frame` | game, from the frame of the touch input | the first part advances when the second fails | the three parts agree on pointers and on time |
| Android host (`native_activity.cpp`) | `failed`, next surface id, all of the above | app commands, motion events, the poll loop | `android_native_app_glue` | half-failed attach and detach; latching of errors; three ways to end | surface and input stay together and are released |
| iOS host (`app_delegate.mm`, `scene_lifecycle_delegate.mm`) | surface and touch input of a view controller | layout, touches, disappearance, dealloc; scene callbacks and their hooks | UIKit | errors are reported and the shell goes on | no pointer outlives its touch |
| Lifecycle event queue (`lifecycle_event_queue.cpp`) | ring buffer, closed flag | `try_push`, `try_pop`, `close` | a callback thread and the engine thread | wrap-around; close with events inside | a bounded FIFO that is drained |
| Memory budget (`memory_budget.hpp`) | one atomic counter | `try_reserve`, `release` | any thread | lost updates, unsigned subtraction, refusals from old values | the counter is what was granted |
| Scene (`scene.cpp`, `scene.hpp`) | identifier, slots with generations, free list, components | create, move, entities, parents, components | game; physics bridges; serializer | handles after reuse, retirement and moves; cycles | hierarchies are forests, handles die once |
| Scene serialization (`scene_serializer.hpp`, `scene_serializer.cpp`, `binary_archive.cpp`) | none; an archive between two processes | serialize, deserialize | game | limits on both sides; archives that were damaged; a load that fails half-way | what was saved comes back; what is accepted is what was stored |
| 2D physics world and bridge (`two_d.cpp`, `two_d_scene.cpp`) | bodies, contact history; entries | attach, detach, step | game | the scene changes between calls; a step fails after it retired bodies | bodies match entries; Begin, Stay and End agree |
| 1D physics world and bridge (`one_d.cpp`, `one_d_scene.cpp`) | bodies, contact history; entries | bodies, forces, queries, step; attach, detach | game | collisions resolved one after the other; edges and ties; the scene changes between calls | collisions make nothing out of nothing; queries agree; bodies follow entities |
| Event dispatcher (`event_dispatcher.hpp`) | lists of slots, flags, next identifier | subscribe, disconnect, clear, dispatch | game | handlers that do any of these, nested; callbacks that own subscriptions | a dispatch calls whom it owes a call |
| Not modelled | | | | see section 7 | |

`PROJECT.json` lists the same components, and under `hazards` the places where
each of these difficulties bites, with the properties that are aimed at them.

## 2. Modules

    PointerEvent                     events and their bounded data
    Lifecycle   SurfaceLifecycle     the two state machines a presentation has;
                                     HostPartsProofs
        FrameDriver                  composes both; EngineServicesProofs
    TouchInput                       on PointerEvent; HostPartsProofs
        AndroidHost                  Lifecycle + SurfaceLifecycle + TouchInput;
                                     AndroidHostProofs
        IOSHost                      Lifecycle + SurfaceLifecycle + TouchInput;
                                     IOSHostProofs
    GestureRecognizer                on PointerEvent; TouchPipelineProofs
    InputActionMap
        TouchPipeline                TouchInput + GestureRecognizer + InputActionMap;
                                     TouchPipelineProofs
    BoundedFifo                      abstract buffer
        LifecycleEventQueue          implements it; EngineServicesProofs
    MemoryBudget                     EngineServicesProofs
    ContactEvents                    the merge of two lists of contacts, and what
                                     a game learns from its events
    Scene                            SceneProofs
    PhysicsWorld2D                   on ContactEvents
        PhysicsScene2D               Scene + PhysicsWorld2D; SceneProofs
        SceneArchive                 on Scene
    PhysicsWorld1D                   on ContactEvents
        PhysicsScene1D               on PhysicsWorld1D; PhysicsScene1DProofs
    EventDispatcher                  EngineServicesProofs
    MCEngineServices                 TouchInput, MemoryBudget and EventDispatcher,
                                     side by side
    MCIOSHost                        IOSHost and LifecycleEventQueue, side by side
    CommonLemmas                     numbers, sequences and loops, and the merge of
                                     ContactEvents

`MC…` modules add what TLC needs: symmetry sets, batches of inputs, a state
constraint. Where a module composes others it EXTENDS them and its actions are
conjunctions of theirs, so a step of the composition is a step of each part.

### How they read

* A variable is a field of the C++ object and its comment names it. *History*
  variables (`consumer`, `heard`, `touching`, `granted`, `ended`, …) are marked
  as such: no action reads them to decide anything; they hold what an observer
  of the program would remember, and properties compare it with the state.
* An action is a whole handler, with all it calls. Handlers that can be
  interrupted are split exactly where: `FrameDriver` at each of the callbacks,
  `TouchInput` at each event of a batch (nothing else happens in between, but
  *which* event comes next is then free), `EventDispatcher` at each handler,
  `MemoryBudget` and `CreateScene` at each atomic operation.
* A call that is rejected and changes nothing is a stuttering step and not
  written down. One that fails and does change something is an action.
* `Broken…` operators are seeded faults: a plausible bug in the definition that
  follows. No specification uses them. Put in place of that definition, each
  makes TLC report the property it is kept for, which is how we know that the
  property says something about the code. `PROJECT.json` (`mutants`) pairs them.

### Correspondence, where it is not one to one

* **Lifecycle.** A handler is a fold of conditional requests over
  `[ok, lifecycle]`; `ok` false breaks it off, as the early return does.
* **FrameDriver.** `pc` is the callback the frame is in. Time is an integer in
  the clock's unit; the bounds of `int64_t` are `MinCount..MaxCount`, so that the
  checked subtraction and addition of the code have something to check.
  `FixedStepScheduler::advance` is `StepCount`, `Remainder`, `AccumulatorOverflows`.
* **TouchInput.** Coordinates are a few integers (one axis), with `NonFinite` for
  NaN and infinities. Timestamp 0 stands for "none yet".
* **GestureRecognizer.** `update` is one step; handlers are functions on a working
  state whose `ok` is the Boolean they return. One axis; a velocity is compared as
  distance against speed times duration; a pinch keeps its distance in place of
  the scale, zero exactly when the scale is.
* **FrameDriver, TouchPipeline.** The timestamp a frame is given is the clock's present
  value. The code takes it from the caller, which the documents (ADR-0017: "the current
  monotonic time") oblige to read it then.
* **AndroidHost, IOSHost.** What the operating system does (order of windows,
  phases of touches, monotone event times) is external and stated in the headers.
  The packaged shells have no frame loop yet; `Frame` is the composition that
  `docs/INPUT-SYSTEM.md` describes, it is never forced to happen, and no property
  depends on its happening.
* **Scene.** `scenes` maps a C++ object to what it holds; a move moves the
  contents. `set_parent`'s walk to the root is the loop of the code, a function on
  the number of steps left (`Visited`). `HierarchyIsForest` says what the walk is for
  in other words: no set of slots keeps the parents of all its members (`Grounded`), so
  from every entity the parents lead out of any set, and in the end to a root.
* **SceneArchive.** An archive is the sequence of its fields, each one number, in the
  order in which they are written; so lengths, identifiers, parents, sibling orders,
  blocks and records can be cut, extended and altered one by one. Strings and the bytes
  inside a number are not told apart. `deserialize` is a fold over blocks and records
  with the checks in the code's order; the loop over the limits is in the guards. The
  values of components are no part of a scene here, so which of them their codecs refuse
  to encode is open at every save (`encodable`).
* **PhysicsWorld1D.** Numbers are integers, a result beyond `MaxNumber` is the
  infinity that `is_finite` refuses. A step lasts one unit of time. Collisions divide by
  masses; a step in which a division leaves a remainder is left out, so that momentum
  and energy can be compared exactly. Pairs are visited and bounds refreshed as the
  loops do.
* **PhysicsScene1D.** The bridge asks the scene two questions, is the entity alive and
  has it a `Transform1D`; `transforms` holds the answers and changes between any calls.
* **EventDispatcher.** A callback may own a subscription (`owned`). Destroying its slot
  calls `disconnect` again, `Calls` is that chain; `reentered` is set when a chain enters
  a container that is being changed, and nothing is explored behind that.
* **PhysicsWorld2D.** A step finds any list of contacts between live bodies that
  fits its limit, or fails. A list of contacts is sorted by slots, as the code sorts it.
  The merge of two lists and the loop of `PhysicsScene2D::step` that retires bodies are the
  code's loops, as functions of the number of turns made.
* **MemoryBudget.** The code's relaxed loads may return older values of the
  counter than the newest; here a load returns the newest. A reservation that
  begins with an older value either fails its exchange, and reads the counter
  then, or is refused on the older value, which `RefusalsAreDeserved` does
  not cover: only the exchanges, which do read the newest value, keep the account.

## 3. What the runs check

Each `pass` run is exhaustive within its bounds. Property comments in the modules
say precisely what is claimed.

| Run | Module | Question | States |
|---|---|---|---|
| `frame_driver` | `MCFrameDriver` | Does any time outside an active presentation with a surface reach the simulation, whatever callbacks do? | 1,112,168 |
| `engine_services` | `MCEngineServices` | Do the frames explain the pointers at full buffers; does the budget balance; does a dispatch call exactly those it owes a call, whatever handlers do? | 764,216 |
| `android_host` | `MCAndroidHost` | Does the shell keep surface and touch input together on every path, and is nothing refused that it asks for? | 898,093 |
| `ios_host` | `MCIOSHost` | The same for the shell that goes on after errors: does a pointer ever outlive its touch? Is the ring of lifecycle events a bounded FIFO that is drained? | 497,300 |
| `gesture_recognizer` | `MCGestureRecognizer` | Are drags, pans, pinches and double taps told in order, each ended once? | 121,807 |
| `touch_pipeline` | `MCTouchPipeline` | Do touch input, recognizer and action map agree on pointers and time, frame by frame? | 1,603,520 |
| `physics_scene` | `MCPhysicsScene2D` | Do handles die once, do bodies, entries and contacts stay together, and is every Begin, Stay and End right when it comes, over scenes that change, move and end between the calls of the bridge? | 326,601 |
| `scene_archive` | `MCSceneArchive` | Does a saved scene come back, under every limit, and is a damaged archive refused or some scene's own? | 174,983 |
| `physics_1d` | `MCPhysicsScene1D` | Do collisions, contacts, rays and boxes agree, and do bodies follow their entities? | 124,051 |
| `stranded_pointer` | `MCTouchPipeline` | violation, section 5 | |
| `surface_change` | `MCTouchPipeline` | violation, section 5 | |
| `reentrant_disconnect` | `MCEventDispatcher` | violation, section 5 | |

Properties, by what could really go wrong:

* *Time.* `SimulatedWithinActiveTime`: time simulated ≤ time accepted ≤ time active
  with a surface, across background trips, replaced surfaces, failed frames and
  changes inside callbacks. `FrameChargesOnlyItsEpoch` is its local form.
* *Half-failed operations.* `CleanupSucceeds` (the internal error of `process_batch`
  is unreachable), `NothingRefused` (no order of events makes the Android shell
  fail on its own parts), `BridgeInvariant` (bodies and entries match after a step
  that failed between two retirements), `LossStopsTheLoop`.
* *What an observer believes.* `FrameExplainsPointers`, `EndsAreReported`,
  `GesturesAreOrderly`, `NoGestureIsForgotten`, `TracksFollowTheFrames`,
  `GameKnowsTheContacts`, `ContactEventsMakeSense` and `ContactsKeepTheirEntities` let a
  consumer replay what it was told and compare that with the producer.
  `GameKnowsTheContacts`, checked on the line, compares sets and would not see a contact
  begun twice; `ContactEventsMakeSense`, checked in the plane, looks at the events of a
  step one by one and at their order. The merge is the same module for both worlds, and
  each property is proved for both.
  `EndsAreReported` says exactly which endings may be lost: those in a frame that is
  discarded before the game is shown it, of pointers already inactive (`Stranded`,
  `FrameDiscarded`); `LeavingActiveCancels` therefore speaks of the frame as it is when
  the scene leaves the foreground, not of its delivery. Section 5 has the rest.
* *Handles and generations.* `HandlesDieOnce`, `ComponentsFollowTheirEntity`,
  `StepRetiresTheGone`.
* *There and back.* `SavedSceneComesBack`: for every reachable scene, set of codecs and
  limits under which it can be saved, the archive is admitted and rebuilds hierarchy,
  sibling order and components; and a scene is refused only for a limit, a missing codec or
  a value its codec refuses. One exception is stated in it, the scene of exactly
  `kNoEntity` entities. `NothingIsDropped`: whatever archive is accepted, a
  damaged one included, is the archive of the scene it became.
* *Collisions in sequence.* `CollisionsResolve`: all pairs of a step together make no
  momentum among dynamic bodies and no energy unless a kinematic body drives them, and an
  overlap that is left was made by a later pair. `QueriesAgree`: a ray ends where the
  overlap query over its segment first finds a body, and at that body, also from inside,
  at an edge and in a tie.
* *Re-entrancy.* `DispatchIsFair`, `SkipsTheDisconnected`, and all of `frame_driver`.
* *Concurrency.* `BudgetBalances`, `RefusalsAreDeserved`, `IsBoundedFifo`.
* *Liveness.* `ClosedQueueDrains`.

### Bounds, and why they are enough

* `frame_driver`: clock −2..5 with `MaxCount` 4, so timestamps start below zero,
  differences overflow and the clock leaves the range; step 2, clamp 4, one step per
  frame, so the budget is exceeded and a remainder is left; revision up to 4, enough
  for a full trip to the background and to exhaustion inside a two-request handler;
  two surface generations.
* `engine_services`: a sum, not a product. *Touch input*: three identities for two
  pointers and three events per frame: identities are refused for room, and cancelling
  two pointers does not fit a frame with two events; two surfaces, two positions.
  *Budget*: three threads, capacity 3, requests of 1, 2 and 4, the last above
  the capacity; by proof for every number of threads. *Dispatcher*: three handles, two
  event types, four identifiers, two nested dispatches: identifiers run out, a nested
  dispatch runs over a list that an outer handler has changed, and a chain of callbacks
  that own each other's subscriptions spans both types; by proof for every number of each.
* `android_host`, `ios_host`: two pointers, frames of three events and of two (two
  cancellations then fit an empty frame only), two metrics, two generations, counters
  that run out; revision 4. `ios_host` is a sum, too: the *queue* beside it shares nothing
  with it; capacity 3 and three states: full, empty and wrapped; by proof for every capacity.
* `gesture_recognizer`: three pointers (a pinch and a bystander), two positions on
  either side of every threshold, time 0..2 around each duration; a third
  pointer is down at time 0 only. Four gestures of output, so that handlers
  which emit several overflow it. One surface besides none. One event per frame: a
  batch is a fold over events, and two events with one timestamp are reached by two
  frames with it. Of the batches that reset the recognizer whatever else they hold, one
  of each kind is tried.
* `touch_pipeline`: one pointer that comes and goes, two surfaces, five gestures of
  output against four the action map accepts and one action, so that each part can
  be the one that fails.
* `physics_scene`: two objects, three entities, two generations and two bodies under a
  shared budget of six (see `MCPhysicsScene2D`): hierarchies of depth three, reused and
  retired slots, a scene moved or dropped under a bridge. An allocation of an identifier
  under way counts in the budget too. Beside that (`Still`), a scene of up to three
  entities without parents may have three bodies, whose slots are used twice again, and
  two contacts at a time: of the three possible pairs any two, so that the merge takes
  from either list first, and bodies are replaced and steps fail between two steps that
  succeed.
* `scene_archive`: scenes of three slots and two generations with two component types,
  one of two fields; four settings of the limits, in each of which others are tight.
  A process edits until it saves; the next one finds the file as it is, or cut anywhere,
  extended by any number, or with any one field altered, and loads it. `kNoEntity` is
  four here, so that it is no identifier of the scenes edited freely; scenes of four
  entities, exactly `kNoEntity`, are reached with every hierarchy, without components.
* `physics_1d`: three bodies, numbers up to three, four definitions (two masses, all
  three types, elastic and not, a trigger, two layers), rays from inside and outside,
  under a budget of what makes a state more than bodies at rest (see `MCPhysicsScene1D`):
  chains of three bodies that push each other, kinematic drivers, ties, limits of
  contacts reached, results out of range, slots used again.

Deadlock is checked where the program never stops. `AndroidHost` and `IOSHost` end
with the main loop and the view controller; in `engine_services` the budget ends with the
calls its bounds allow and the dispatcher with an undefined call; the scene runs with their
budget or the identifiers of the process.

### Fairness

Only the queue needs any: `WF(TryPop)`, because the engine thread polls it on every
iteration. No other liveness is claimed: whether the operating system calls again,
whether the game dispatches or steps, is not the engine's to decide. A
compare-and-exchange loop of one thread may starve, which is what lock-free means.

Symmetry is used where the code compares identities for equality only: pointers,
metrics, threads, event types, handles, entities of the line and scene objects. One run
with symmetry has a liveness property, `ios_host`: it speaks of the behaviours of
the queue alone, and no state of those holds a symmetric value. In `engine_services`,
pointers, threads and handles share their names, since no behaviour has two of them.

## 4. What is proved

All of it for every value of the constants that their `ASSUME`s admit.

| Theorem | Statement |
|---|---|
| `EngineServicesProofs!FramesAreTyped` | `Spec => []TypeOK`; in it: the accumulator stays below one step |
| `EngineServicesProofs!SimulationIsActiveTime` | `Spec => []SimulatedWithinActiveTime` |
| `EngineServicesProofs!ChargesOnlyItsEpoch` | `Spec => FrameChargesOnlyItsEpoch` |
| `EngineServicesProofs!FocusLossStopsTheFrames`, `HostPartsProofs!LossAlwaysStopsTheLoop` | `LossStopsTheLoop`, with the callbacks of a frame and for the lifecycle alone |
| `HostPartsProofs!TouchInvariantHolds`, `CleanupAlwaysSucceeds`, `FramesExplainPointers` | `TouchSpec` keeps `TouchInvariant`, `CleanupSucceeds`, `FrameExplainsPointers` |
| `HostPartsProofs!EndsAreAlwaysReported` | `TouchSpec => EndsAreReported` |
| `TouchPipelineProofs!GestureAlwaysInvariant`, `GesturesAlwaysOrderly`, `NoGestureIsEverForgotten` | `GestureSpec` keeps `GestureInvariant`, `GesturesAreOrderly`, `NoGestureIsForgotten` |
| `TouchPipelineProofs!PipelineAlwaysInTime`, `TracksAlwaysFollowTheFrames` | `PipelineSpec` keeps `PipelineInvariant`, `TracksFollowTheFrames` |
| `TouchPipelineProofs!PipelineImplementsTouch`, `PipelineImplementsGestures` | `PipelineSpec => TouchSpec`, `PipelineSpec => GestureSpec` |
| `AndroidHostProofs!HostInvariantHolds`, `NothingIsRefused` | `HostSpec` keeps `HostInvariant` and `NothingRefused` |
| `AndroidHostProofs!ShellImplementsTouchSpec`, `IOSHostProofs!ViewImplementsTouchSpec` | `HostSpec => TouchSpec`, `ViewSpec => TouchSpec` |
| `AndroidHostProofs!ShellKeepsTouchPromises`, `IOSHostProofs!ViewKeepsTouchPromises` | what the touch input promises alone, it promises in the shells |
| `AndroidHostProofs!NoGestureMixesMetrics` | `HostSpec => MetricsChangeEndsGestures` |
| `IOSHostProofs!ViewInvariantHolds`, `PointersDieWithTheirTouch` | `ViewSpec` keeps `ViewInvariant` and `NoPointerOutlivesItsTouch` |
| `IOSHostProofs!LeavingActiveAlwaysCancels` | `ViewSpec => LeavingActiveCancels` |
| `SceneProofs!ContentsAreExact`, `HierarchyStaysForest` | `SceneSpec` keeps `SceneInvariant`, `HierarchyIsForest` |
| `SceneProofs!EndedHandlesStayDead`, `ComponentsStayWithTheirEntity` | `SceneSpec` keeps `HandlesDieOnce`, `ComponentsFollowTheirEntity` |
| `SceneProofs!BodiesFollowTheEntities` | `PhysicsSpec => []BridgeInvariant` |
| `SceneProofs!GameIsToldEverything`, `ContactsAreOfTheirEntities` | `PhysicsSpec` keeps `GameKnowsTheContacts`, `ContactsKeepTheirEntities` |
| `SceneProofs!EventsMakeSense`, `PhysicsScene1DProofs!EventsMakeSense` | `PhysicsSpec => ContactEventsMakeSense`, in the plane and on the line |
| `SceneProofs!NothingGoneMoves` | `PhysicsSpec => StepRetiresTheGone` |
| `SceneProofs!BridgeKeepsTheScene`, `EndedHandlesStayDeadBesideABridge` | `PhysicsSpec => SceneSpec`, and so `HandlesDieOnce` |
| `PhysicsScene1DProofs!BridgeHolds`, `ContactsAreKnown` | `PhysicsSpec` of the line keeps `BridgeInvariant`, `GameKnowsTheContacts` |
| `PhysicsScene1DProofs!QueriesAlwaysAgree` | `PhysicsSpec => []QueriesAgree` |
| `EngineServicesProofs!BudgetTypeCorrect`, `BudgetIsKept`, `RefusalsDeserved` | types, the balance, and the action property on refusals |
| `EngineServicesProofs!QueueTypeCorrect`, `QueueIsFifo` | the ring stays in its array and implements `BoundedFifo` |
| `EngineServicesProofs!ListenersAlwaysHeld`, `DispatchAlwaysFair` | `DispatcherSpec` keeps `DispatcherInvariant`, `DispatchIsFair` |
| `EngineServicesProofs!DisconnectedAlwaysSkipped` | `DispatcherSpec => SkipsTheDisconnected` |

Assumptions are the named `ASSUME`s of the modules: the configuration is what
`create` accepts, limits are natural numbers, and the stand-ins for an empty
optional are not values. TLC evaluates all of them.

**Frame driver.** `SimulatedWithinActiveTime` is not inductive: a frame that continues
the previous one charges `now - previous.timestamp`, and nothing in the property says
that this interval was active. `IInv` keeps an account: time accepted, plus the delta
a begun frame still holds, plus what a next frame could charge, is at most the active
time; time simulated, plus the steps owed, plus the accumulator, is at most the time
accepted. "What a next frame could charge" counts only while the epoch of the baseline
lasts (`SameEpoch`), and that an epoch once left never returns is because revision and
generation only grow: lemmas `LifecycleMoves` and `SurfaceMoves`. One lemma per action
follows. `DivMod` and `AdvanceBounds` say what the scheduler does with division.

**Lifecycle.** Which of its requests a handler is granted follows from the state it
starts in (`EventsAreGranted`, `SceneEventsAreGranted`); the only request that can be
refused for another reason is one at an exhausted revision, and the property excepts it.

**Touch input.** `TouchInv` adds to the checked invariants what they lean on: no identity
is active twice (else ending one pointer leaves another of that name), no accepted event
has coordinates that are not finite, a surface is attached only under the newest
generation. What a consumer believes after a frame is decided by the last event about an
identity; `LastExists` and the lemmas on it turn that into statements about the end of a
sequence, one for appended events, one for the cancellations of all pointers.
`EndsAreReported` compares the belief before and after a step: a pointer that becomes
stranded was believed down by a game that knew the frames before, and not by one that
knows the frame as well (`EndedInFrame`), so the ending was in the frame and the step
threw it away; where room is made or a batch is rejected, every pointer still active gets
its Cancel afterwards (`CancelStrands`, `ProcessStrands`).

**Hosts.** `NothingRefused` needs that surface and touch input have seen the same
generations, that no accepted event is ahead of the clock, and that the lifecycle
terminates with the main loop only. Each handler is shown to leave this and, at the same
time, to take a step that `TouchSpec` allows or none. Hence the refinement
`HostSpec => TouchSpec`, and with it every theorem about the touch input carries over
instead of being proved again. On iOS `NoPointerOutlivesItsTouch` speaks of the time
between callbacks; `PointersAreTouches` says what holds inside one, where a pointer may
be active whose ending waits to be processed.

**Gesture recognizer.** The three properties speak of what a consumer believes after
whole frames; the code emits gestures one by one, from handlers that are half-way through
their changes. So the proof follows a working state `s` of `update` with the gestures it
has emitted, and `Sound(T, h, s)` says that a consumer who knew `h` and heard those is told
in order and believes open exactly the drags, pans and pinches that the tracks and the pair
of `s` stand for (`Matches`). That is not kept by itself: tracks must have different
pointers (`Apart`), a pair must be of two tracks that are down, and a track absorbed by a
pair must not be dragging (`Fits`). Each handler keeps it, with one lemma per handler and
per gesture it may emit; cancelling several tracks and handling a batch are loops over
slots and events. Of a working state that failed nothing is claimed, for `update` then
resets. At the end of a frame the output has been handed over, and `GestureInductive` is the
same agreement with the variables.

**Pipeline.** `TouchSpec` and `GestureSpec` of its parts are shown first, so that their
theorems carry over. What is new is between the parts. `PipelineInductive` says that the
times of the recognizer and of the action map are never ahead of the last event accepted
and that every frame not handled yet lies between (`TimesAgree`); so no frame is refused for
its time. `TracksFollowTheFrames` needs what the tracks are *after each event of a frame*:
`Follows` says what one event does to them, whatever it emits, `Placed` that after `n`
events every track is where the frame, replayed up to `n`, leaves its pointer
(`ReplayedUpTo`).

**Scene.** Contents of one object first: each operation is reduced to a *shape*
(`Created`, `Destroyed`, `Moved`), what it does slot by slot, and from the shape follow
handles, edges and groundedness. That `set_parent` keeps the hierarchy a forest although it
walks up from the parent only: a set of slots that would keep all its parents after
the move contains the new parent, and the child is the only way out of it, so it would
hold the walk captive, which ended at a root without meeting the child
(`WalkIsCaptive`). For `HandlesDieOnce` an ended handle is *stale* wherever it could be
presented: its slot has a later generation or is retired; identifiers of scenes are given
out upwards, so a new scene can have no ended handles, and a move makes nothing fresh.

**Physics bridge.** `PhysicsInv` joins the invariant of the scenes with `BridgeOK`, bodies
and entries match one to one and the free list holds dead slots once, and with
`KnowsBodies`: the game knows what the world remembers, and every body of a contact is
alive or *spent*, its handle never to be given out again. `GameKnowsTheContacts` needs the
merge to be right for sorted lists of any length. `Merging` says how far it is: everything
before the two positions is smaller than everything after them in the other list, and the
events so far are the Begins and Ends of what was passed. Each turn keeps that and
advances, so after as many turns as there are contacts the merge is through
(`TransitionsAre`), and handling its events adds what begun and removes what ended
(`ToldIs`); both are in `CommonLemmas`, for the line and the plane. `MergeTells` adds for
`ContactEventsMakeSense` that the events so far are about what was passed, leave no previous
contact out, and are in order: a turn adds events about the contacts it takes, which come
after all that was passed (`TellsOn`, `TurnTells`). The loop that retires bodies likewise:
one turn per entry is enough (`RetirementsKeep`), and wherever it stops, bodies and entries agree, which is
what a failing step relies on. No step of the bridge touches a scene, so
`PhysicsSpec => SceneSpec`.

**Physics on a line.** The bridge is proved as that of the plane, with one difference:
there the contacts of a step are any sorted list, here the step finds them, while
it moves the bodies. `SameBodies` says that integration and collisions change no more
than positions and velocities, so what is alive stays what it was; `FoundPairs` and
`UpTo` that the pairs found so far are of living bodies, rise, and are no later than the pair
the two loops have come to, through `Resolved`, `Against` and `Collided`. So they are sorted as
the merge needs them. What the collisions do to the velocities matters to neither, only
that the numbers stay integers (`QuotientIsInteger`, `RespondedKeeps`); a step that divides
unevenly is left out before. `QueriesAgree` needs no history: for one body, the ray enters
it within a length exactly if the box over that length meets it (`MetIfEntered`); the box
query returns the slots it meets in order (`OverlappingIs`), the loop of the ray keeps the
nearest so far and of equals the first (`RaycastIs`); and `AgreeIn` compares the two, in any
well-formed world, at rest or not.

**Memory budget.** The account is inductive together with the types and with the check
`bytes <= capacity` made before the loop, without which `CapacityBytes - n` would be negative
(in C++: wrap). For refusals the invariant adds that a value which forbids the call, held
in a local or in the counter, was observed to forbid it during the call.

**Event queue.** The refinement mapping reads the ring from `head`. `RemainderUnwraps`
and the lemmas on it say that places less than `Capacity` apart are different slots, so
a push disturbs nothing and a pop shifts the reading by one.

**Event dispatcher.** `DispatcherInvariant` and `DispatchIsFair` lean on each other's parts,
and in the middle of a call neither holds. `Account(L, F, O, H, X, P, G)` is the account
in a form that survives the middle of a call: of the connections in existence each is held
once, by a handle (`H`), by the callback of a slot (`O`) or by nobody that will last (`X`,
about to end); lists `L` and flags `F` show exactly those not cleared (`G`); a callback owns
an earlier subscription than its own, and a slot kept by no list and no running dispatch (`P`) owns
nothing. Each call moves a connection from one place to another: `GivenUp`,
`SubscribedAccount`, `ClearedAccount`, `LessKept`. Then connections end, and with each
those that a destroyed callback owned, and so on. That the chain of `Calls` is complete
after as many rounds as there are identifiers follows from the identifiers falling along
it (`CallsClosed`); that the account is balanced again when the chain has ended, with
nothing left over, is `EndsAccount`, and every action passes through it. Frames on the
stack keep their place (`Halfway`): of the listeners found at entry, those up to the
current one have been called or are not connected. That stays true because
identifiers are never given out twice (`Taken`), so a slot a dispatch has passed cannot
become connected again. Each turn of the loop takes the first that is left
(`UncalledHasFirst`), which makes the calls rise.

**Loops.** The induction theorems of the library take an operator as a parameter, which
the provers cannot instantiate. `CommonLemmas` goes around that with sets: the numbers
below a bound are well founded, so a set of them has a least element (`Least`), a set that
contains 0 and every successor is the whole interval (`IntervalInduction`), and a loop
defined by recursion over its turns is a function (`LoopExists`; `WalkExists` for the walk to
the root, `RowExists` for a loop whose turns differ). Definitions in that form can be reasoned about; folds and `SelectSeq` of the
library cannot.

Only model-checked: the liveness of the queue, which needs fairness; which actions
the action map makes of a gesture, of which only `surface_change` speaks; `SavedSceneComesBack` and
`NothingIsDropped` of the archives, which are induction over the fields of a file, written
with folds; and `CollisionsResolve`, whose momentum and energy are sums, also folds, of
products of unknowns.

## 5. Where code and documents disagree

* **`stranded_pointer`.** `docs/INPUT-SYSTEM.md:28-30` says that a rejected batch drops
  partial frame events and cancels all active pointers "so malformed OS input cannot
  strand a pointer in the engine". `process_batch` empties the frame before it cancels
  the pointers still active, so the Up of a pointer accepted earlier in that frame is
  dropped and, being inactive, the pointer is not cancelled either. The recognizer, if it
  saw the Down, tracks it until that identity comes down again or the surface changes.
  On iOS it takes no malformed input: leaving the foreground cancels the touches, UIKit
  reports one of them once more before the next frame, its batch is rejected because the
  pointer is no longer active, and the frame with the Cancel is gone.
* **`surface_change`.** `docs/INPUT-SYSTEM.md:142-143` says that surface-generation
  changes are converted to cancelled action events. When the frame that spans the change
  still holds events of the old surface (the cancellations of the detach, usually),
  `update` cancels its pointers, then meets an event of another generation, resets and
  returns an error; no action comes out.
* **`reentrant_disconnect`.** `docs/ARCHITECTURE.md:42`: "Its move-only RAII subscriptions
  disconnect safely"; `docs/EVENT-SYSTEM.md:38`: "The subscription disconnects when
  explicitly disconnected or destroyed". A callback may own a subscription of the same
  dispatcher. `State::disconnect` destroys the callback inside `std::erase_if`, `clear()`
  inside `unordered_map::clear()`; the destructor of the owned subscription then enters
  the same container while it is being changed, which is undefined. With `erase_if` both
  must listen to the same event type, with `clear()` any will do. `EVENT-SYSTEM.md:54`
  leaves "captured object lifetimes" to the application, but says nothing of this.
  Where the two types differ and nothing is cleared, the chain ends as it should, which
  `engine_services` checks and `ListenersAlwaysHeld` proves.

Smaller observations. The comment at `native_activity.cpp:248` speaks of old moves when
the frame is emptied to make room; Down and Up are discarded with them. On a surface
change `cancel_tracked_pointers` reports a dragging pointer as `Cancelled` without
the `DragEnd` that `process_cancel` emits before it; `NoGestureIsForgotten` therefore takes
`Cancelled` as the end of a drag. `serialize` writes a scene of exactly `kNoEntity`
entities (lines 598-599 of `scene_serializer.hpp`) and `deserialize` refuses it (848); no
document promises that corner, and `SavedSceneComesBack` states it.

## 6. Plan

Written in this order, the most important behaviour first: frame driver with its
lifecycles; touch input; hosts; recognizer, action map and pipeline; queue and budget;
scene; physics bridge; dispatcher; archives of scenes; physics on a line. Next:

1. *More of the system.* What section 7 lists is numeric or has no state; the one part
   that could still be modelled in more detail is the contact search of the 2D world.
2. *More proofs.* Archives: that reading undoes writing, field by field, once reading is a
   loop over the fields. Collisions: one pair makes no momentum and no energy, which is
   arithmetic of two bodies, and then the sums over all.

## 7. Not modelled

* *Transform systems, mathematics*: read-only walks and floating-point functions. The
  hierarchy the walks rely on is checked with the scene.
* *The solver, shapes and queries of the 2D world*: floating-point; a step finds any
  contacts instead.
* *Engine state*: one enumeration and two guarded assignments on one thread; every
  property of it would repeat a guard.
* *Rounding on the line*: steps that do not divide evenly, and the time step itself.
* *Bytes and strings of an archive*: the order and the number of fields are modelled,
  not their encoding.
* *Results, errors, logging*: value types; the failure paths are in the modules.
* *Exceptions from allocation* where the code allocates before it assigns: a stuttering
  step. Where it does not (`PhysicsScene2D::step`), the failure is an action.
* *The destruction of the dispatcher*, and destructors of captured objects that do
  anything but end a subscription.
