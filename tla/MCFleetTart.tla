----------------------------- MODULE MCFleetTart -----------------------------
(* Small instances of FleetTart for TLC. *)
EXTENDS FleetTart, VmNames, TLC

CONSTANTS r1, r2, j1, j2, img, c1, c2, p1

\* Runners and jobs by the characters of their ids; a slash is not safe.
MCSafeChar == {"m", "f", "1", "x", "-", "."}
MCPrefix == <<"m", "f", "m", "-">>
MCText == r1 :> <<"m">> @@ r2 :> <<"m", "1">> @@ j1 :> <<"1", "/", "/", "x">> @@ j2 :> <<"x", "/">>

MCRunner == {r1, r2}
MCPosition == r1 :> 1 @@ r2 :> 2
MCImageOf == [r \in MCRunner |-> img]
MCVmNameFor == [r \in MCRunner |-> [j \in {j1, j2} |-> vm_name_for(MCText[r], MCText[j])]]
MCVmName == {MCVmNameFor[r][j] : r \in MCRunner, j \in {j1, j2}}

\* A runner whose id ends where another runner's job begins.
MCDashedText == [MCText EXCEPT ![r2] = <<"m", "-", "1">>]
MCDashedVmNameFor ==
  [r \in MCRunner |-> [j \in {j1, j2} |-> vm_name_for(MCDashedText[r], MCDashedText[j])]]
MCDashedVmName == {MCDashedVmNameFor[r][j] : r \in MCRunner, j \in {j1, j2}}

Acquire(runner, job) ==
  [op |-> "acquire", runner |-> runner, job |-> job, image |-> AnyImage,
   health |-> NoHealth, ttl |-> 1, tart |-> TRUE]

Rel(runner, job) == [op |-> "release", runner |-> runner, job |-> job]

MCTartAcquires == {Acquire(r1, j1), Acquire(AnyRunner, j2)}
MCNamedAcquires == {Acquire(r1, j1), Acquire(r2, j2)}

\* The second lease outlasts every sweep.
MCUnevenAcquires == {Acquire(r1, j1), [Acquire(r2, j2) EXCEPT !.ttl = 2]}

MCTartReleases == {Rel(r1, j1), Rel(r2, j2)}

MCOneRelease == {Rel(r1, j1)}

MCOneRunner == {r1}
MCOnePosition == r1 :> 1
MCOneImageOf == r1 :> img
MCOneVmNameFor == r1 :> (j1 :> MCVmNameFor[r1][j1])
MCOneVmName == {MCVmNameFor[r1][j1]}

MCLiveAcquires == {Acquire(r1, j1)}

MCLiveReleases == {Rel(r1, j1)}
==============================================================================
