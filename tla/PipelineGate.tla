------------------------------ MODULE PipelineGate ------------------------------
(***************************************************************************)
(* The validator of Spinnaker pipelines (src/mfm/pipeline.py): its check   *)
(* for dependency cycles and its promotion policy, which walks the         *)
(* ancestors of every stage that must come behind another; and then the    *)
(* execution of what it let through, where a stage starts once its         *)
(* requisites are over.  The execution is Spinnaker's, hence external.     *)
(* What is wrong with one stage by itself (missing fields, unknown types,  *)
(* texts a policy misses in a payload) is a flaw there is or is not.       *)
(* Python's lists are worked off in a fixed order, here in any order.      *)
(***************************************************************************)
EXTENDS Integers, Sequences, FiniteSets

CONSTANTS
  Stage,      \* refIds of stages
  Gate,       \* the stage that the policy names as gate
  Protected,  \* the stages the gate protects
  Order,      \* pairs <<before, after>> of the promotion order
  Requisites, \* the lists of requisites that occur
  NotAList    \* a stage without requisiteStageRefIds, or with no list there

ASSUME GateAssumption ==
  /\ Gate \in Stage
  /\ Protected \subseteq Stage \ {Gate}
  /\ Order \subseteq {p \in Stage \X Stage : p[1] # p[2]}
  /\ Requisites \subseteq Seq(Stage)
  /\ NotAList \notin Requisites

VARIABLES
  requires,  \* requisiteStageRefIds of each stage of the document
  strict,    \* the gate sets failPipeline
  policy,    \* its name has a policy with a gate; not so the rollback policy
  pc,        \* where the validator is
  errors,    \* what it has found wrong
  indegree,  \* _check_cycles: requisites not yet taken off
  ready,     \* _check_cycles: stages whose requisites are all taken off
  done,      \* _check_cycles: number of stages taken
  left,      \* pairs <<before, after>> still to be checked
  pair,      \* the pair that is being checked
  todo,      \* ancestors(): refs to visit
  seen,      \* ancestors(): stages found
  status     \* the execution: what has become of each stage

document == <<requires, strict, policy>>
cycles == <<indegree, ready, done>>
walk == <<left, pair, todo, seen>>
vars == <<document, pc, errors, cycles, walk, status>>

Stages == DOMAIN requires

Elements(s) == {s[i] : i \in DOMAIN s}

Listed == {s \in Stages : requires[s] # NotAList}

Reqs(s) == IF s \in Listed THEN requires[s] ELSE <<>>

\* Mutant: requisites that are no stages are not dropped.
DepsUnknown(s) == {i \in DOMAIN Reqs(s) : Reqs(s)[i] # s}

\* Where a list names other stages; a stage named twice counts twice.
Deps(s) == {i \in DOMAIN Reqs(s) : Reqs(s)[i] \in Stages /\ Reqs(s)[i] # s}

GatePairs == {Gate} \X Protected

\* The order is checked only if every stage it names is there.
OrderPairs == IF \A p \in Order : {p[1], p[2]} \subseteq Stages THEN Order ELSE {}

Checks == GatePairs \cup OrderPairs

Kinds == {"flaw", "not a list", "itself", "not a stage", "cycle",
          "missing gate", "not strict", "missing stage", "bypass"}

TypeOK ==
  /\ Stages \subseteq Stage /\ requires \in [Stages -> Requisites \cup {NotAList}]
  /\ strict \in BOOLEAN /\ policy \in BOOLEAN
  /\ pc \in {"shape", "cycles", "policy", "pairs", "walk", "rejected", "accepted", "raised"}
  /\ errors \subseteq Kinds
  /\ indegree \in [Listed -> Nat]
  /\ ready \subseteq Listed
  /\ done \in Nat
  /\ left \subseteq Stage \X Stage /\ pair \in Stage \X Stage
  /\ todo \subseteq Stage /\ seen \subseteq Stages
  /\ status \in [Stages -> {"waiting", "running", "passed", "failed"}]

\* Any document, which is finite whatever the names are drawn from; the
\* validator is a process of its own and starts afresh.
Init ==
  /\ \E S \in (SUBSET Stage) \ {{}} : IsFiniteSet(S) /\ requires \in [S -> Requisites \cup {NotAList}]
  /\ strict \in BOOLEAN
  /\ policy \in BOOLEAN
  /\ pc = "shape"
  /\ errors = {}
  /\ indegree = [s \in Listed |-> 0]
  /\ ready = {}
  /\ done = 0
  /\ left = {}
  /\ pair = <<Gate, Gate>>
  /\ todo = {}
  /\ seen = {}
  /\ status = [s \in Stages |-> "waiting"]

------------------------------------------------------------------------------
(* _check_shape and _check_cycles *)

\* Mutant: the names in a list are not looked up.
NotLookedUp(s) == FALSE

NamesNoStage(s) == ~ (Elements(Reqs(s)) \subseteq Stages)

\* Each stage by itself, then the references; the cycle check sets out
\* whatever came of it, with the stages that have a list.
CheckShape ==
  /\ pc = "shape"
  /\ \E flaw \in BOOLEAN :
       errors' = {k \in {"flaw"} : flaw} \cup {k \in {"not a list"} : Listed # Stages}
          \cup {k \in {"itself"} : \E s \in Stages : s \in Elements(Reqs(s))}
          \cup {k \in {"not a stage"} : \E s \in Stages : NamesNoStage(s)}
  /\ indegree' = [s \in Listed |-> Cardinality(Deps(s))]
  /\ ready' = {s \in Listed : Cardinality(Deps(s)) = 0}
  /\ pc' = "cycles"
  /\ UNCHANGED <<document, done, walk, status>>

\* A value that Python cannot hash or iterate (a list as a refId, a type or a
\* requisite; null for the parameters) raises TypeError, which nobody catches.
ShapeRaises ==
  /\ pc = "shape"
  /\ pc' = "raised"
  /\ UNCHANGED <<document, errors, cycles, walk, status>>

\* Mutant: stages that require themselves are taken off themselves.
FollowersAndItself(cur) == {s \in Listed : cur \in Elements(Reqs(s))}

Followers(cur) == {s \in Listed : \E i \in Deps(s) : Reqs(s)[i] = cur}

\* A ready stage is taken, and taken off each stage that lists it: once,
\* however often it is listed.
TakeReady(cur) ==
  /\ pc = "cycles"
  /\ cur \in ready
  /\ indegree' = [s \in Listed |-> IF s \in Followers(cur) THEN indegree[s] - 1 ELSE indegree[s]]
  /\ ready' = (ready \ {cur}) \cup {s \in Followers(cur) : indegree[s] = 1}
  /\ done' = done + 1
  /\ UNCHANGED <<document, pc, errors, walk, status>>

\* Mutant: the stages taken are not counted.
AllTakenUncounted == TRUE

AllTaken == done = Cardinality(Listed)

\* Stages that were never taken are reported as a cycle; with any error the
\* policy is not looked at, and a name without one passes.
CyclesChecked ==
  /\ pc = "cycles"
  /\ ready = {}
  /\ errors' = errors \cup {k \in {"cycle"} : ~ AllTaken}
  /\ pc' = IF errors' # {} THEN "rejected" ELSE IF policy THEN "policy" ELSE "accepted"
  /\ UNCHANGED <<document, cycles, walk, status>>

\* The rollback policy has no gate, but misses a parameter, a stage or a text.
RollbackRefused ==
  /\ pc = "cycles" /\ ready = {} /\ errors = {} /\ AllTaken /\ ~ policy
  /\ errors' = {"flaw"}
  /\ pc' = "rejected"
  /\ UNCHANGED <<document, cycles, walk, status>>

------------------------------------------------------------------------------
(* _gate, the promotion order, and ancestors *)

\* Mutant: a gate that does not fail the pipeline will do.
GateMayPass == TRUE

GateStops == strict

\* Without the gate no stage is checked against it, yet the order still is.
\* The gate's type and the checks in its payload are a flaw or none.
CheckPolicy ==
  /\ pc = "policy"
  /\ \E flaw \in BOOLEAN :
       errors' = {k \in {"flaw"} : flaw} \cup {k \in {"missing gate"} : Gate \notin Stages}
          \cup {k \in {"not strict"} : Gate \in Stages /\ ~ GateStops}
          \cup {k \in {"missing stage"} : Gate \in Stages /\ ~ (Protected \subseteq Stages)}
  /\ left' = {p \in Checks : {p[1], p[2]} \subseteq Stages}
  /\ pc' = "pairs"
  /\ UNCHANGED <<document, cycles, pair, todo, seen, status>>

StartWalk(p) ==
  /\ pc = "pairs"
  /\ p \in left
  /\ left' = left \ {p}
  /\ pair' = p
  /\ todo' = Elements(Reqs(p[2]))
  /\ seen' = {}
  /\ pc' = "walk"
  /\ UNCHANGED <<document, errors, cycles, status>>

Visit(cur) ==
  /\ pc = "walk"
  /\ cur \in todo
  /\ IF cur \in seen \/ cur \notin Stages
     THEN /\ todo' = todo \ {cur}
          /\ UNCHANGED seen
     ELSE /\ todo' = (todo \ {cur}) \cup Elements(Reqs(cur))
          /\ seen' = seen \cup {cur}
  /\ UNCHANGED <<document, pc, errors, cycles, left, pair, status>>

Walked ==
  /\ pc = "walk"
  /\ todo = {}
  /\ errors' = errors \cup {k \in {"bypass"} : pair[1] \notin seen}
  /\ pc' = "pairs"
  /\ UNCHANGED <<document, cycles, walk, status>>

Decide ==
  /\ pc = "pairs"
  /\ left = {}
  /\ pc' = IF errors = {} THEN "accepted" ELSE "rejected"
  /\ UNCHANGED <<document, errors, cycles, walk, status>>

------------------------------------------------------------------------------
(* The execution of an accepted pipeline *)

GateFailed == Gate \in Stages /\ status[Gate] = "failed"

\* failPipeline is what makes a failed gate stop the pipeline; without it the
\* stages behind the gate go ahead.
Over(r) == r \in Stages /\ (status[r] = "passed" \/ (status[r] = "failed" /\ ~ strict))

Start(s) ==
  /\ pc = "accepted"
  /\ ~ (GateFailed /\ strict)
  /\ status[s] = "waiting"
  /\ \A r \in Elements(Reqs(s)) : Over(r)
  /\ status' = [status EXCEPT ![s] = "running"]
  /\ UNCHANGED <<document, pc, errors, cycles, walk>>

\* Of the stages only the gate may fail: what a failing stage does to the
\* rest is settled for the gate alone.
Finish(s, outcome) ==
  /\ pc = "accepted"
  /\ status[s] = "running"
  /\ outcome = "passed" \/ s = Gate
  /\ status' = [status EXCEPT ![s] = outcome]
  /\ UNCHANGED <<document, pc, errors, cycles, walk>>

Next ==
  \/ CheckShape \/ ShapeRaises
  \/ \E cur \in ready : TakeReady(cur)
  \/ CyclesChecked \/ RollbackRefused
  \/ CheckPolicy
  \/ \E p \in left : StartWalk(p)
  \/ \E cur \in todo : Visit(cur)
  \/ Walked
  \/ Decide
  \/ \E s \in Stages : Start(s) \/ \E outcome \in {"passed", "failed"} : Finish(s, outcome)

Spec == Init /\ [][Next]_vars

\* The validator is a sequential program without locks or input to wait for,
\* and a pipeline engine starts what can start.
FairSpec == Spec /\ WF_vars(Next)

------------------------------------------------------------------------------
(* What the validator promises *)

\* Some stages all wait for one another: each requires another among them.
Cyclic ==
  \E S \in (SUBSET Stages) \ {{}} : \A s \in S : \E r \in S \ {s} : r \in Elements(Reqs(s))

\* A stage lists another twice, or one that has no list of its own.
Repeats ==
  \E s \in Stages : \E i, j \in DOMAIN Reqs(s) :
    i # j /\ Reqs(s)[i] = Reqs(s)[j] /\ Reqs(s)[i] \in Stages \ {s}
Listless == \E s \in Stages : Elements(Reqs(s)) \cap (Stages \ Listed) # {}

\* _check_cycles (pipeline.py:150-169) taking stages off one another: it
\* reports a cycle exactly where stages wait for one another, or a requisite is
\* repeated or has no list, whatever else is wrong with the references.
CyclesFound ==
  pc \notin {"shape", "cycles", "raised"} =>
    ("cycle" \in errors <=> Cyclic \/ Repeats \/ Listless)

\* The gates of deploy/SPINNAKER.md and _gate (pipeline.py:172-186): in a
\* pipeline that passed its policy no protected stage starts before the gate
\* passed, and no stage of the promotion order before its predecessor.
GateHolds ==
  policy => \A p \in Checks : {p[1], p[2]} \subseteq Stages =>
              (status[p[2]] # "waiting" => status[p[1]] = "passed")

Finished == \A s \in Stages : status[s] \in {"passed", "failed"}

\* What deploy/SPINNAKER.md has the validator run for, before a pipeline is
\* posted (_check_shape and _check_cycles, pipeline.py:140-169): what it lets
\* through can always go on, unless the gate has stopped it; no stage is left
\* waiting for one that is itself waiting, or is not there.
NeverStuck ==
  pc = "accepted" =>
    \/ Finished \/ (GateFailed /\ strict)
    \/ \E s \in Stages : \/ status[s] = "running"
                         \/ status[s] = "waiting" /\ \A r \in Elements(Reqs(s)) : Over(r)

\* What the validator is for: every check ends, and a pipeline that it lets
\* through is executed to its last stage unless the gate stops it.
AcceptedRuns ==
  <> (pc \in {"rejected", "raised"} \/ (pc = "accepted" /\ (Finished \/ (GateFailed /\ strict))))

------------------------------------------------------------------------------
(* What the documentation says and the code does not do *)

\* The validator checks "that there are no cycles" (deploy/SPINNAKER.md) and
\* reports one as "dependency cycle among stages" (pipeline.py:169): a pipeline
\* that is refused for a cycle and nothing else has one.
ReportedCycleIsOne == errors = {"cycle"} => Cyclic
==============================================================================
