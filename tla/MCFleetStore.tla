----------------------------- MODULE MCFleetStore -----------------------------
(* Small instances of FleetStore for TLC. *)
EXTENDS FleetStore, TLC

CONSTANTS r1, r2, j1, j2, v11, v12, v21, v22, img, c1, c2, p1

MCRunner == {r1, r2}
MCPosition == r1 :> 1 @@ r2 :> 2
MCImageOf == [r \in MCRunner |-> img]
MCVmNameFor == r1 :> (j1 :> v11 @@ j2 :> v12) @@ r2 :> (j1 :> v21 @@ j2 :> v22)

Acquire(runner, job, health, ttl, tart) ==
  [op |-> "acquire", runner |-> runner, job |-> job, image |-> AnyImage,
   health |-> health, ttl |-> ttl, tart |-> tart]

Rel(runner, job) == [op |-> "release", runner |-> runner, job |-> job]

\* The host that comes second in the inventory is the cooler one.
CoolSecond == r1 :> [thermal |-> "fair", used |-> 0, total |-> 0]
                @@ r2 :> [thermal |-> "nominal", used |-> 1, total |-> 2]

\* A tart lease the scheduler places, and a simulated one by name for another
\* job, which compete for the runner left over; and a command that is refused.
MCAcquires ==
  {Acquire(AnyRunner, j1, CoolSecond, 1, TRUE), Acquire(r1, j2, NoHealth, 2, FALSE),
   Acquire(r1, j2, CoolSecond, 1, FALSE)}

MCReleases == {Rel(r1, j1), Rel(r1, j2), Rel(r2, j1)}

Symmetry == Permutations({c1, c2})
===============================================================================
