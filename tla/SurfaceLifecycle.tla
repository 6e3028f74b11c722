-------------------------- MODULE SurfaceLifecycle --------------------------
(***************************************************************************)
(* The render surface of one presentation: SurfaceLifecycle of             *)
(* engine/platform/src/surface_lifecycle.cpp.  Native callbacks name the   *)
(* surface they speak of by its native identity and by the generation that *)
(* attach handed out; the native side reuses identities (they are counters *)
(* or addresses), so only the generation tells a delayed callback of a     *)
(* destroyed surface from one of its replacement.                          *)
(*                                                                         *)
(* A rejected call changes nothing and is a stuttering step.  Extent and   *)
(* scale are one value of Metrics; an identity of zero, an empty extent or *)
(* a scale that is not positive are rejected by validate_surface before    *)
(* any state is read, and are not in the sets.                             *)
(***************************************************************************)
EXTENDS Integers

CONSTANTS NativeIds,        \* native surface identities
          Metrics,          \* valid extents with their scale
          MaxGeneration,    \* std::numeric_limits<std::uint64_t>::max()
          NoSurface         \* current_ without a value

ASSUME MaxGenerationAssumption == MaxGeneration \in Nat

VARIABLES surface,          \* current_
          lastGeneration    \* last_generation_

surfaceVars == <<surface, lastGeneration>>

Descriptors == [native_id : NativeIds, generation : 1..MaxGeneration, metrics : Metrics]

ASSUME NoSurfaceAssumption == NoSurface \notin Descriptors

SurfaceInit == surface = NoSurface /\ lastGeneration = 0

Attached == surface # NoSurface

\* The callback speaks of the surface that is attached now.
IsCurrent(id, generation) ==
    Attached /\ surface.native_id = id /\ surface.generation = generation
-----------------------------------------------------------------------------
Attach(id, metrics) ==
    /\ ~Attached
    /\ lastGeneration < MaxGeneration
    /\ lastGeneration' = lastGeneration + 1
    /\ surface' = [native_id |-> id, generation |-> lastGeneration + 1, metrics |-> metrics]

Resize(id, generation, metrics) ==
    /\ IsCurrent(id, generation)
    /\ surface' = [surface EXCEPT !.metrics = metrics]
    /\ UNCHANGED lastGeneration

Detach(id, generation) ==
    /\ IsCurrent(id, generation)
    /\ surface' = NoSurface
    /\ UNCHANGED lastGeneration

SurfaceNext ==
    \E id \in NativeIds :
        \/ \E m \in Metrics : Attach(id, m)
        \/ \E g \in 1..MaxGeneration, m \in Metrics : Resize(id, g, m)
        \/ \E g \in 1..MaxGeneration : Detach(id, g)
-----------------------------------------------------------------------------
\* The descriptor is well formed, and an attached surface carries the newest
\* generation: no other attach happened since.
SurfaceTypeOK ==
    /\ lastGeneration \in 0..MaxGeneration
    /\ surface \in Descriptors \cup {NoSurface}
    /\ Attached => surface.generation = lastGeneration
=============================================================================
