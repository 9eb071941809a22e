--------------------------- MODULE PipelineGateProofs ---------------------------
(***************************************************************************)
(* No stage behind a gate runs before the gate has passed, for pipelines   *)
(* and policies of any size. Being an ancestor is put without paths: b is  *)
(* behind a when every set of stages that holds a and is closed under      *)
(* requisites holds b. The walk never leaves such a set, and the stages    *)
(* that passed, with one that has just started, are one.                   *)
(* Then the cycle check is right, by the set of stages it has taken; what  *)
(* is let through can always go on, as stages that all waited would be a   *)
(* ring; and every step lowers what is left to do.                         *)
(***************************************************************************)
EXTENDS PipelineGate, FiniteSetTheorems, TLAPS

Closed(C) == \A s \in C : Elements(Reqs(s)) \cap Stages \subseteq C

\* b is an ancestor of a.
Precedes(b, a) == \A C \in SUBSET Stages : a \in C /\ Closed(C) => b \in C

WalkTyped ==
  /\ Stages \subseteq Stage /\ requires \in [Stages -> Requisites \cup {NotAList}]
  /\ todo \subseteq Stage /\ seen \subseteq Stages
  /\ left \subseteq {p \in Checks : {p[1], p[2]} \subseteq Stages}
  /\ status \in [Stages -> {"waiting", "running", "passed", "failed"}]

\* What the walk has found and will visit stays within the ancestors.
WalkInside ==
  pc = "walk" =>
    /\ pair[2] \in Stages
    /\ \A C \in SUBSET Stages : pair[2] \in C /\ Closed(C) => (seen \cup todo) \cap Stages \subseteq C

\* While no error is found, each pair is in order or still to be checked.
PairsChecked ==
  /\ errors = {} /\ pc \in {"pairs", "walk"} =>
       /\ strict
       /\ \A p \in Checks : {p[1], p[2]} \subseteq Stages =>
            p \in left \/ (pc = "walk" /\ p = pair) \/ Precedes(p[1], p[2])
  /\ policy /\ pc = "accepted" =>
       /\ strict
       /\ \A p \in Checks : {p[1], p[2]} \subseteq Stages => Precedes(p[1], p[2])

\* Nothing runs before the verdict, and nothing before its requisites.
RunsInOrder ==
  \A s \in Stages : status[s] # "waiting" =>
    pc = "accepted" /\ \A r \in Elements(Reqs(s)) : Over(r)

GateInv == WalkTyped /\ WalkInside /\ PairsChecked /\ RunsInOrder

\* Requisites are references, whether or not to a stage.
LEMMA RequisitesAreRefs ==
  ASSUME requires \in [Stages -> Requisites \cup {NotAList}], NEW s
  PROVE  Elements(Reqs(s)) \subseteq Stage
<1>1. Reqs(s) \in Seq(Stage)
  <2>1. CASE s \in Listed
    BY <2>1, GateAssumption DEF Reqs, Listed
  <2>2. CASE s \notin Listed
    BY <2>2 DEF Reqs
  <2> QED
    BY <2>1, <2>2
<1> QED
  BY <1>1 DEF Elements

\* The invariant gives the property: close the passed stages under p's start.
LEMMA GateInvGivesGate ==
  ASSUME GateInv
  PROVE  GateHolds
<1> SUFFICES ASSUME policy, NEW p \in Checks, {p[1], p[2]} \subseteq Stages, status[p[2]] # "waiting"
             PROVE  status[p[1]] = "passed"
  BY DEF GateHolds
<1> DEFINE C == {s \in Stages : status[s] = "passed"} \cup {p[2]}
<1>1. p[1] # p[2]
  BY GateAssumption DEF Checks, GatePairs, OrderPairs
<1>2. pc = "accepted" /\ strict /\ Precedes(p[1], p[2])
  BY DEF GateInv, RunsInOrder, PairsChecked
<1>3. Closed(C)
  <2> SUFFICES ASSUME NEW s \in C, NEW r \in Elements(Reqs(s)) \cap Stages
               PROVE  r \in C
    BY DEF Closed
  <2>1. s \in Stages /\ status[s] # "waiting"
    OBVIOUS
  <2> QED
    BY <2>1, <1>2 DEF GateInv, RunsInOrder, Over
<1> QED
  BY <1>1, <1>2, <1>3 DEF Precedes

\* The invariant holds of every document before it is looked at.
LEMMA GateInvInit == Init => GateInv
<1> SUFFICES ASSUME Init
             PROVE  GateInv
  OBVIOUS
<1>1. WalkTyped
  BY DEF Init, WalkTyped, Stages
<1>2. WalkInside /\ PairsChecked /\ RunsInOrder
  BY DEF Init, WalkInside, PairsChecked, RunsInOrder
<1> QED
  BY <1>1, <1>2 DEF GateInv

\* No step writes the document, and ancestry depends on nothing else.
LEMMA DocumentStays ==
  ASSUME [Next]_vars
  PROVE  /\ UNCHANGED document /\ Stages' = Stages /\ Checks' = Checks
         /\ \A C : Closed(C)' <=> Closed(C)
         /\ \A b, a : Precedes(b, a)' <=> Precedes(b, a)
<1>1. UNCHANGED document
  BY DEF Next, vars, CheckShape, ShapeRaises, TakeReady, CyclesChecked, RollbackRefused, CheckPolicy, StartWalk, Visit, Walked, Decide,
     Start, Finish
<1>2. requires' = requires
  BY <1>1 DEF document
<1>3. Stages' = Stages
  BY <1>2 DEF Stages
<1>4. Checks' = Checks
  BY <1>3 DEF Checks, GatePairs, OrderPairs
<1>5. \A C : Closed(C)' <=> Closed(C)
  BY <1>2, <1>3 DEF Closed, Elements, Reqs, Listed
<1>6. \A b, a : Precedes(b, a)' <=> Precedes(b, a)
  BY <1>3, <1>5 DEF Precedes
<1> QED
  BY <1>1, <1>3, <1>4, <1>5, <1>6

\* The cycle check starts no stage and leaves the walk alone.
LEMMA CycleCheckKeeps ==
  ASSUME GateInv,
         CheckShape \/ ShapeRaises \/ CyclesChecked \/ RollbackRefused \/ \E cur \in ready : TakeReady(cur)
  PROVE  GateInv'
<1>1. [Next]_vars
  BY DEF Next
<1>2. /\ pc \in {"shape", "cycles"} /\ UNCHANGED <<walk, status>>
      /\ pc' \in {"cycles", "policy", "rejected", "accepted", "raised"}
      /\ pc' = "accepted" => ~ policy
  BY DEF CheckShape, ShapeRaises, CyclesChecked, RollbackRefused, TakeReady
<1>3. WalkTyped'
  BY <1>1, <1>2, DocumentStays DEF GateInv, WalkTyped, walk, document
<1>4. WalkInside' /\ PairsChecked'
  BY <1>1, <1>2, DocumentStays DEF WalkInside, PairsChecked, document
<1>5. RunsInOrder'
  BY <1>1, <1>2, DocumentStays DEF GateInv, RunsInOrder
<1> QED
  BY <1>3, <1>4, <1>5 DEF GateInv

\* Every pair whose stages are there is put down to be checked.
LEMMA CheckPolicyKeeps ==
  ASSUME GateInv, CheckPolicy
  PROVE  GateInv'
<1>1. [Next]_vars
  BY DEF Next
<1>2. WalkTyped'
  BY <1>1, DocumentStays DEF GateInv, WalkTyped, CheckPolicy, document
<1>3. WalkInside'
  BY DEF CheckPolicy, WalkInside
<1>4. PairsChecked'
  <2>1. errors' = {} => Gate \notin Stages \/ strict
    BY DEF CheckPolicy, GateStops
  <2>2. errors' = {} => Gate \in Stages
    BY DEF CheckPolicy
  <2>3. \A p \in Checks : {p[1], p[2]} \subseteq Stages => p \in left'
    BY DEF CheckPolicy
  <2> QED
    BY <1>1, <2>1, <2>2, <2>3, DocumentStays DEF PairsChecked, CheckPolicy, document
<1>5. RunsInOrder'
  BY <1>1, DocumentStays DEF GateInv, RunsInOrder, CheckPolicy
<1> QED
  BY <1>2, <1>3, <1>4, <1>5 DEF GateInv

\* A closed set that holds the target holds its requisites.
LEMMA StartWalkKeeps ==
  ASSUME GateInv, NEW p \in left, StartWalk(p)
  PROVE  GateInv'
<1>1. [Next]_vars
  BY DEF Next
<1>2. p \in Checks /\ p[2] \in Stages
  BY DEF GateInv, WalkTyped
<1>3. WalkTyped'
  <2>1. todo' \subseteq Stage
    BY <1>2, RequisitesAreRefs DEF GateInv, WalkTyped, StartWalk
  <2> QED
    BY <1>1, <2>1, DocumentStays DEF GateInv, WalkTyped, StartWalk, document
<1>4. WalkInside'
  BY <1>1, <1>2, DocumentStays DEF WalkInside, StartWalk, Closed
<1>5. PairsChecked'
  BY <1>1, DocumentStays DEF GateInv, PairsChecked, StartWalk, document
<1>6. RunsInOrder'
  BY <1>1, DocumentStays DEF GateInv, RunsInOrder, StartWalk
<1> QED
  BY <1>3, <1>4, <1>5, <1>6 DEF GateInv

\* The walk stays inside every closed set it is in.
LEMMA VisitKeeps ==
  ASSUME GateInv, NEW cur \in todo, Visit(cur)
  PROVE  GateInv'
<1>1. [Next]_vars
  BY DEF Next
<1>2. WalkTyped'
  <2>1. cur \in Stages => Elements(Reqs(cur)) \subseteq Stage
    BY RequisitesAreRefs DEF GateInv, WalkTyped
  <2>2. todo' \subseteq Stage /\ seen' \subseteq Stages
    BY <2>1 DEF GateInv, WalkTyped, Visit
  <2> QED
    BY <1>1, <2>2, DocumentStays DEF GateInv, WalkTyped, Visit, document
<1>3. WalkInside'
  <2> SUFFICES ASSUME NEW C \in SUBSET Stages, pair[2] \in C, Closed(C)
               PROVE  (seen' \cup todo') \cap Stages \subseteq C
    BY <1>1, DocumentStays DEF GateInv, WalkInside, Visit
  <2>1. (seen \cup todo) \cap Stages \subseteq C
    BY DEF GateInv, WalkInside, Visit
  <2>2. CASE cur \in seen \/ cur \notin Stages
    BY <2>1, <2>2 DEF Visit
  <2>3. CASE cur \notin seen /\ cur \in Stages
    <3>1. Elements(Reqs(cur)) \cap Stages \subseteq C
      BY <2>1, <2>3 DEF Closed
    <3> QED
      BY <2>1, <2>3, <3>1 DEF Visit
  <2> QED
    BY <2>2, <2>3
<1>4. PairsChecked'
  BY <1>1, DocumentStays DEF GateInv, PairsChecked, Visit, document
<1>5. RunsInOrder'
  BY <1>1, DocumentStays DEF GateInv, RunsInOrder, Visit
<1> QED
  BY <1>2, <1>3, <1>4, <1>5 DEF GateInv

\* A stage the walk has seen is in every closed set that holds the target.
LEMMA WalkedKeeps ==
  ASSUME GateInv, Walked
  PROVE  GateInv'
<1>1. [Next]_vars
  BY DEF Next
<1>2. WalkTyped'
  BY <1>1, DocumentStays DEF GateInv, WalkTyped, Walked, walk, document
<1>3. WalkInside'
  BY DEF WalkInside, Walked
<1>4. PairsChecked'
  <2> SUFFICES ASSUME errors' = {}
               PROVE  /\ strict
                      /\ \A p \in Checks : {p[1], p[2]} \subseteq Stages =>
                           p \in left \/ Precedes(p[1], p[2])
    BY <1>1, DocumentStays DEF PairsChecked, Walked, walk, document
  <2>1. errors = {} /\ pair[1] \in seen
    BY DEF Walked
  <2>2. Precedes(pair[1], pair[2])
    BY <2>1 DEF GateInv, WalkInside, WalkTyped, Walked, Precedes
  <2> QED
    BY <2>1, <2>2 DEF GateInv, PairsChecked, Walked
<1>5. RunsInOrder'
  BY <1>1, DocumentStays DEF GateInv, RunsInOrder, Walked
<1> QED
  BY <1>2, <1>3, <1>4, <1>5 DEF GateInv

\* Nothing is left to check when the verdict falls.
LEMMA DecideKeeps ==
  ASSUME GateInv, Decide
  PROVE  GateInv'
<1>1. [Next]_vars
  BY DEF Next
<1>2. WalkTyped'
  BY <1>1, DocumentStays DEF GateInv, WalkTyped, Decide, walk, document
<1>3. WalkInside'
  BY DEF WalkInside, Decide
<1>4. PairsChecked'
  BY <1>1, DocumentStays DEF GateInv, PairsChecked, Decide, document
<1>5. RunsInOrder'
  BY <1>1, DocumentStays DEF GateInv, RunsInOrder, Decide
<1> QED
  BY <1>2, <1>3, <1>4, <1>5 DEF GateInv

\* What is over stays over, and a stage starts only when all it requires is.
LEMMA ExecutionKeeps ==
  ASSUME GateInv, NEW s \in Stages, Start(s) \/ \E outcome \in {"passed", "failed"} : Finish(s, outcome)
  PROVE  GateInv'
<1>1. [Next]_vars
  BY DEF Next
<1>2. pc = "accepted" /\ UNCHANGED <<pc, errors, walk>>
  BY DEF Start, Finish
<1>3. /\ status[s] \in {"waiting", "running"}
      /\ \E new \in {"running", "passed", "failed"} : status' = [status EXCEPT ![s] = new]
  BY DEF Start, Finish
<1>4. WalkTyped'
  BY <1>1, <1>2, <1>3, DocumentStays DEF GateInv, WalkTyped, walk, document
<1>5. WalkInside' /\ PairsChecked'
  BY <1>1, <1>2, DocumentStays DEF GateInv, WalkInside, PairsChecked, document
<1>6. \A r : Over(r) => Over(r)'
  BY <1>1, <1>3, DocumentStays DEF GateInv, WalkTyped, Over, document
<1>7. \A r \in Elements(Reqs(s)) : Over(r)
  BY DEF GateInv, RunsInOrder, Start, Finish
<1>8. RunsInOrder'
  <2> SUFFICES ASSUME NEW t \in Stages, status'[t] # "waiting", NEW r \in Elements(Reqs(t))
               PROVE  Over(r)'
    BY <1>1, <1>2, DocumentStays DEF RunsInOrder, document, Elements, Reqs, Listed
  <2>1. t = s \/ status[t] # "waiting"
    BY <1>3 DEF GateInv, WalkTyped
  <2> QED
    BY <2>1, <1>6, <1>7 DEF GateInv, RunsInOrder
<1> QED
  BY <1>4, <1>5, <1>8 DEF GateInv

\* Every step of the validator and of the execution keeps the invariant.
LEMMA GateInvNext ==
  ASSUME GateInv, [Next]_vars
  PROVE  GateInv'
<1>1. CASE Next
  BY <1>1, CycleCheckKeeps, CheckPolicyKeeps, StartWalkKeeps, VisitKeeps, WalkedKeeps, DecideKeeps,
     ExecutionKeeps DEF Next
<1>2. CASE UNCHANGED vars
  BY <1>2 DEF vars, document, cycles, walk, GateInv, WalkTyped, WalkInside, PairsChecked, RunsInOrder,
     Closed, Precedes, Over, Checks, GatePairs, OrderPairs, Stages, Elements, Reqs, Listed
<1> QED
  BY <1>1, <1>2

\* The gates of deploy/SPINNAKER.md and _gate (pipeline.py:172-186): what a
\* policy let through runs no protected stage before its gate passed, however
\* many stages there are and however they require one another.
THEOREM GateIsPassed == Spec => []GateHolds
BY GateInvInit, GateInvNext, GateInvGivesGate, PTL DEF Spec

------------------------------------------------------------------------------
(* The cycle check: which stages were taken is not kept by the code, which *)
(* only counts them; the invariant says that there is such a set.          *)

\* The other stages that s lists.
Named(s) == {Reqs(s)[i] : i \in Deps(s)}

Repeated(s) == \E i, j \in Deps(s) : i # j /\ Reqs(s)[i] = Reqs(s)[j]

\* Each of these stages requires another of them.
Ring(S) == S # {} /\ S \subseteq Stages /\ \A s \in S : \E r \in S \ {s} : r \in Elements(Reqs(s))

DocumentTyped ==
  /\ Stages \subseteq Stage /\ IsFiniteSet(Stages)
  /\ requires \in [Stages -> Requisites \cup {NotAList}]

\* T has been taken: each count lacks what was taken of its stage, the ready
\* are those with nothing left, and no stage of a ring is among them.
Taken(T) ==
  /\ T \subseteq Listed /\ ready \subseteq Listed /\ ready \cap T = {}
  /\ done = Cardinality(T)
  /\ indegree \in [Listed -> Nat]
  /\ \A s \in Listed : indegree[s] = Cardinality(Deps(s)) - Cardinality(T \cap Named(s))
  /\ \A s \in Listed : s \in T \cup ready <=> indegree[s] = 0
  /\ \A S : Ring(S) => S \cap (T \cup ready) = {}

SortInv ==
  /\ TypeOK /\ DocumentTyped
  /\ pc = "shape" => errors = {} /\ done = 0
  /\ pc = "cycles" => "cycle" \notin errors /\ \E T \in SUBSET Stages : Taken(T)
  /\ pc = "policy" => errors = {}
  /\ CyclesFound

\* A stage lists at most as many others as its list is long, and exactly as
\* many when none is repeated.
LEMMA NamedCounts ==
  ASSUME DocumentTyped, NEW s \in Stages
  PROVE  /\ IsFiniteSet(Deps(s)) /\ IsFiniteSet(Named(s)) /\ Named(s) \subseteq Stages \ {s}
         /\ Cardinality(Deps(s)) \in Nat /\ Cardinality(Named(s)) \in Nat
         /\ Cardinality(Named(s)) <= Cardinality(Deps(s))
         /\ Cardinality(Named(s)) = Cardinality(Deps(s)) <=> ~ Repeated(s)
<1> DEFINE f == [i \in Deps(s) |-> Reqs(s)[i]]
<1>1. Reqs(s) \in Seq(Stage)
  BY GateAssumption DEF DocumentTyped, Reqs, Listed
<1>2. IsFiniteSet(Deps(s))
  <2>1. IsFiniteSet(1 .. Len(Reqs(s)))
    BY <1>1, FS_Interval
  <2>2. Deps(s) \in SUBSET (1 .. Len(Reqs(s)))
    BY <1>1 DEF Deps
  <2> QED
    BY <2>1, <2>2, FS_Subset
<1>3. f \in Surjection(Deps(s), Named(s))
  BY DEF Surjection, Named
<1>4. /\ IsFiniteSet(Named(s)) /\ Cardinality(Named(s)) <= Cardinality(Deps(s))
      /\ Cardinality(Named(s)) = Cardinality(Deps(s)) <=> f \in Injection(Deps(s), Named(s))
  BY <1>2, <1>3, FS_Surjection
<1>5. f \in Injection(Deps(s), Named(s)) <=> ~ Repeated(s)
  BY DEF Injection, IsInjective, Named, Repeated
<1>6. Named(s) \subseteq Stages \ {s}
  BY DEF Named, Deps
<1>7. Cardinality(Deps(s)) \in Nat /\ Cardinality(Named(s)) \in Nat
  BY <1>2, <1>4, FS_CardinalityType
<1> QED
  BY <1>2, <1>4, <1>5, <1>6, <1>7

\* Every other stage that a list holds is counted, and nothing else.
LEMMA NamedAreElements ==
  ASSUME NEW s \in Stages
  PROVE  /\ Named(s) = (Elements(Reqs(s)) \cap Stages) \ {s}
         /\ Repeated(s) <=> \E i, j \in DOMAIN Reqs(s) :
                              i # j /\ Reqs(s)[i] = Reqs(s)[j] /\ Reqs(s)[i] \in Stages \ {s}
<1>1. Named(s) = (Elements(Reqs(s)) \cap Stages) \ {s}
  BY DEF Named, Deps, Elements
<1>2. Repeated(s) <=> \E i, j \in DOMAIN Reqs(s) :
                        i # j /\ Reqs(s)[i] = Reqs(s)[j] /\ Reqs(s)[i] \in Stages \ {s}
  BY DEF Repeated, Deps
<1> QED
  BY <1>1, <1>2

\* Nothing is left of a stage's count just when all it lists was taken and
\* nothing is listed twice.
LEMMA CountRunsOut ==
  ASSUME DocumentTyped, NEW s \in Stages, NEW T
  PROVE  LET n == Cardinality(Deps(s)) - Cardinality(T \cap Named(s))
         IN  /\ n \in Nat
             /\ n = 0 <=> Named(s) \subseteq T /\ ~ Repeated(s)
<1>1. /\ IsFiniteSet(Named(s)) /\ Cardinality(Deps(s)) \in Nat /\ Cardinality(Named(s)) \in Nat
      /\ Cardinality(Named(s)) <= Cardinality(Deps(s))
      /\ Cardinality(Named(s)) = Cardinality(Deps(s)) <=> ~ Repeated(s)
  BY NamedCounts
<1>2. T \cap Named(s) \in SUBSET Named(s)
  OBVIOUS
<1>3. /\ IsFiniteSet(T \cap Named(s)) /\ Cardinality(T \cap Named(s)) <= Cardinality(Named(s))
      /\ Cardinality(Named(s)) = Cardinality(T \cap Named(s)) => Named(s) = T \cap Named(s)
  BY <1>1, <1>2, FS_Subset
<1>4. Cardinality(T \cap Named(s)) \in Nat
  BY <1>3, FS_CardinalityType
<1>5. Named(s) \subseteq T <=> Cardinality(Named(s)) = Cardinality(T \cap Named(s))
  <2>1. Named(s) \subseteq T <=> Named(s) = T \cap Named(s)
    OBVIOUS
  <2> QED
    BY <1>3, <2>1
<1>6. \A d, c, t \in Nat : c <= d /\ t <= c => d - t \in Nat /\ (d - t = 0 <=> c = t /\ c = d)
  OBVIOUS
<1> QED
  BY <1>1, <1>3, <1>4, <1>5, <1>6

\* Without a ring, a repeated requisite and one without a list, and only
\* then, everything is taken once nothing is ready.
LEMMA AllTakenMeansSorted ==
  ASSUME DocumentTyped, NEW T \in SUBSET Stages, Taken(T), ready = {}
  PROVE  AllTaken <=> ~ (Cyclic \/ Repeats \/ Listless)
<1>1. Listed \subseteq Stages /\ \A s \in Stages \ Listed : Elements(Reqs(s)) = {} /\ ~ Repeated(s)
  BY NamedAreElements DEF Listed, Reqs, Elements
<1>2. IsFiniteSet(Listed)
  BY <1>1, FS_Subset DEF DocumentTyped
<1>3. AllTaken <=> T = Listed
  BY <1>2, FS_Subset DEF Taken, AllTaken
<1>4. Repeats <=> \E s \in Listed : Repeated(s)
  BY <1>1, NamedAreElements DEF Repeats
<1>5. Cyclic <=> \E S : Ring(S)
  <2>1. ASSUME NEW S, Ring(S)
        PROVE  Cyclic
    <3>1. S \in (SUBSET Stages) \ {{}}
      BY <2>1 DEF Ring
    <3> QED
      BY <2>1, <3>1, Zenon DEF Cyclic, Ring
  <2>2. Cyclic => \E S : Ring(S)
    BY Zenon DEF Cyclic, Ring
  <2> QED
    BY <2>1, <2>2
<1>6. ASSUME NEW s \in Listed
      PROVE  s \in T <=> Named(s) \subseteq T /\ ~ Repeated(s)
  BY <1>1, <1>6, CountRunsOut DEF Taken
<1>7. ASSUME T = Listed
      PROVE  ~ (Cyclic \/ Repeats \/ Listless)
  <2>1. ~ Repeats
    BY <1>4, <1>6, <1>7
  <2>2. ~ Listless
    <3> SUFFICES ASSUME NEW s \in Listed, NEW r \in Elements(Reqs(s)), r \in Stages \ Listed
                 PROVE  FALSE
      BY <1>1 DEF Listless
    <3>1. r \in Named(s)
      BY <1>1, NamedAreElements
    <3> QED
      BY <1>6, <1>7, <3>1
  <2>3. ASSUME NEW S, Ring(S)
        PROVE  FALSE
    <3>1. PICK s : s \in S
      BY <2>3 DEF Ring
    <3>2. s \in Listed
      BY <1>1, <2>3, <3>1 DEF Ring
    <3> QED
      BY <1>7, <2>3, <3>1, <3>2 DEF Taken
  <2> QED
    BY <1>5, <2>1, <2>2, <2>3
<1>8. ASSUME T # Listed, ~ Repeats, ~ Listless
      PROVE  Cyclic
  <2>1. Listed \ T # {} /\ Listed \ T \subseteq Stages
    BY <1>1, <1>8 DEF Taken
  <2>2. ASSUME NEW s \in Listed \ T
        PROVE  \E r \in (Listed \ T) \ {s} : r \in Elements(Reqs(s))
    <3>1. PICK r \in Named(s) : r \notin T
      BY <1>4, <1>6, <1>8, <2>2
    <3>2. r \in Elements(Reqs(s)) /\ r \in Stages \ {s}
      BY <1>1, <3>1, NamedAreElements
    <3>3. r \in Listed
      BY <1>1, <1>8, <3>2 DEF Listless
    <3> QED
      BY <3>1, <3>2, <3>3
  <2>3. Ring(Listed \ T)
    BY <2>1, <2>2 DEF Ring
  <2> QED
    BY <1>5, <2>3
<1> QED
  BY <1>3, <1>7, <1>8

\* Deps, names and rings are of the document, which no step writes.
LEMMA ListsStay ==
  ASSUME [Next]_vars
  PROVE  /\ Listed' = Listed /\ requires' = requires
         /\ \A s : Deps(s)' = Deps(s) /\ Named(s)' = Named(s) /\ (Repeated(s)' <=> Repeated(s))
         /\ \A S : Ring(S)' <=> Ring(S)
         /\ DocumentTyped' <=> DocumentTyped
         /\ (Cyclic \/ Repeats \/ Listless)' <=> (Cyclic \/ Repeats \/ Listless)
<1>1. requires' = requires /\ Stages' = Stages
  BY DocumentStays DEF document
<1>2. Listed' = Listed
  BY <1>1 DEF Listed
<1>3. \A s : Reqs(s)' = Reqs(s)
  BY <1>1, <1>2 DEF Reqs
<1>4. \A s : Deps(s)' = Deps(s)
  BY <1>1, <1>3 DEF Deps
<1>5. \A s : Named(s)' = Named(s) /\ (Repeated(s)' <=> Repeated(s))
  BY <1>3, <1>4 DEF Named, Repeated
<1>6. \A S : Ring(S)' <=> Ring(S)
  BY <1>1, <1>3 DEF Ring, Elements
<1>7. DocumentTyped' <=> DocumentTyped
  BY <1>1 DEF DocumentTyped
<1>8. Cyclic' <=> Cyclic
  BY <1>1, <1>3, Zenon DEF Cyclic
<1>9. Repeats' <=> Repeats
  BY <1>1, <1>3 DEF Repeats
<1>10. Listless' <=> Listless
  BY <1>1, <1>2, <1>3 DEF Listless, Elements
<1> QED
  BY <1>1, <1>2, <1>4, <1>5, <1>6, <1>7, <1>8, <1>9, <1>10

\* The count begins with nothing taken; a stage with nothing to take off is
\* in no ring.
LEMMA CheckShapeStarts ==
  ASSUME DocumentTyped, CheckShape, done = 0
  PROVE  Taken({})'
<1>1. [Next]_vars
  BY DEF Next
<1>2. /\ indegree' = [s \in Listed |-> Cardinality(Deps(s))]
      /\ ready' = {s \in Listed : Cardinality(Deps(s)) = 0} /\ done' = 0
  BY DEF CheckShape
<1>3. ASSUME NEW s \in Listed
      PROVE  /\ Cardinality({} \cap Named(s)) = 0 /\ Cardinality(Deps(s)) \in Nat
             /\ Cardinality(Deps(s)) = 0 => Named(s) = {}
  <2>1. s \in Stages
    BY DEF Listed
  <2> DEFINE n == Cardinality(Deps(s)) - Cardinality({} \cap Named(s))
  <2>2. n = 0 => Named(s) = {}
    BY <2>1, CountRunsOut
  <2>3. {} \cap Named(s) = {}
    OBVIOUS
  <2>4. Cardinality({} \cap Named(s)) = 0
    BY <2>3, FS_EmptySet
  <2> QED
    BY <2>1, <2>2, <2>4, NamedCounts
<1>4. ASSUME NEW S, Ring(S), NEW s \in S, s \in ready'
      PROVE  FALSE
  <2>1. s \in Stages /\ Named(s) = {}
    BY <1>2, <1>3, <1>4 DEF Listed
  <2>2. PICK r \in S \ {s} : r \in Elements(Reqs(s))
    BY <1>4 DEF Ring
  <2>3. r \in Named(s)
    BY <1>4, <2>1, <2>2, NamedAreElements DEF Ring
  <2> QED
    BY <2>1, <2>3
<1>5. Cardinality({}) = 0
  BY FS_EmptySet
<1> QED
  BY <1>1, <1>2, <1>3, <1>4, <1>5, ListsStay DEF Taken

\* The stage that is taken was in no ring, so what it leaves with nothing to
\* take off is in none.
LEMMA TakeReadyTakes ==
  ASSUME DocumentTyped, NEW T \in SUBSET Stages, Taken(T), NEW cur \in ready, TakeReady(cur)
  PROVE  Taken(T \cup {cur})'
<1> DEFINE U == T \cup {cur}
<1>1. [Next]_vars
  BY DEF Next
<1>2. T \subseteq Listed /\ cur \in Listed /\ cur \notin T /\ Listed \subseteq Stages
  BY DEF Taken, Listed
<1>3. done' = Cardinality(U)
  <2>1. IsFiniteSet(T)
    BY FS_Subset DEF DocumentTyped
  <2> QED
    BY <1>2, <2>1, FS_AddElement DEF Taken, TakeReady
<1>4. ASSUME NEW s \in Listed
      PROVE  s \in Followers(cur) <=> cur \in Named(s)
  BY <1>4 DEF Followers, Named
<1>5. ASSUME NEW s \in Listed
      PROVE  /\ Cardinality(T \cap Named(s)) \in Nat
             /\ Cardinality(U \cap Named(s)) = IF cur \in Named(s) THEN Cardinality(T \cap Named(s)) + 1
                                               ELSE Cardinality(T \cap Named(s))
  <2>1. IsFiniteSet(Named(s))
    BY <1>2, NamedCounts
  <2>2. IsFiniteSet(T \cap Named(s))
    BY <2>1, FS_Subset
  <2>3. Cardinality((T \cap Named(s)) \cup {cur}) = Cardinality(T \cap Named(s)) + 1
    BY <1>2, <2>2, FS_AddElement
  <2>4. U \cap Named(s) = IF cur \in Named(s) THEN (T \cap Named(s)) \cup {cur} ELSE T \cap Named(s)
    OBVIOUS
  <2> QED
    BY <2>2, <2>3, <2>4, FS_CardinalityType
<1>6. ASSUME NEW s \in Listed
      PROVE  /\ indegree'[s] = Cardinality(Deps(s)) - Cardinality(U \cap Named(s))
             /\ indegree'[s] \in Nat
             /\ indegree'[s] = 0 <=> Named(s) \subseteq U /\ ~ Repeated(s)
             /\ indegree'[s] = IF cur \in Named(s) THEN indegree[s] - 1 ELSE indegree[s]
  <2>1. indegree'[s] = IF cur \in Named(s) THEN indegree[s] - 1 ELSE indegree[s]
    BY <1>4, <1>6 DEF TakeReady
  <2>2. indegree[s] = Cardinality(Deps(s)) - Cardinality(T \cap Named(s))
    BY <1>6 DEF Taken
  <2>3. Cardinality(Deps(s)) \in Nat
    BY <1>2, <1>6, NamedCounts
  <2>4. indegree'[s] = Cardinality(Deps(s)) - Cardinality(U \cap Named(s))
    BY <1>5, <1>6, <2>1, <2>2, <2>3
  <2>5. LET n == Cardinality(Deps(s)) - Cardinality(U \cap Named(s))
        IN  n \in Nat /\ (n = 0 <=> Named(s) \subseteq U /\ ~ Repeated(s))
    BY <1>2, <1>6, CountRunsOut
  <2> QED
    BY <2>1, <2>4, <2>5
<1>7. ready' = (ready \ {cur}) \cup {s \in Listed : cur \in Named(s) /\ indegree[s] = 1}
  BY <1>4 DEF TakeReady, Followers
<1>8. ASSUME NEW s \in Listed
      PROVE  s \in U \cup ready' <=> indegree'[s] = 0
  <2>1. s \in T \cup ready <=> indegree[s] = 0
    BY <1>8 DEF Taken
  <2>2. indegree[s] \in Nat /\ indegree'[s] \in Nat
    BY <1>6, <1>8 DEF Taken
  <2>3. indegree'[s] = IF cur \in Named(s) THEN indegree[s] - 1 ELSE indegree[s]
    BY <1>6, <1>8
  <2>4. s \in U \cup ready' <=> s \in T \cup ready \/ (cur \in Named(s) /\ indegree[s] = 1)
    BY <1>7, <1>8
  <2>5. cur \in Named(s) => indegree[s] # 0
    BY <2>2, <2>3
  <2>6. CASE cur \in Named(s)
    BY <2>1, <2>2, <2>3, <2>4, <2>5, <2>6
  <2>7. CASE cur \notin Named(s)
    BY <2>1, <2>3, <2>4, <2>7
  <2> QED
    BY <2>6, <2>7
<1>9. ready' \subseteq Listed /\ ready' \cap U = {}
  <2>1. ASSUME NEW s \in T \cup {cur}
        PROVE  indegree[s] = 0
    BY <1>2, <2>1 DEF Taken
  <2> QED
    BY <1>2, <1>7, <2>1 DEF Taken
<1>10. ASSUME NEW S, Ring(S), NEW s \in S, s \in U \cup ready'
       PROVE  FALSE
  <2>1. s \in Listed /\ indegree'[s] = 0
    BY <1>2, <1>8, <1>9, <1>10
  <2>2. PICK r \in S \ {s} : r \in Elements(Reqs(s))
    BY <1>10 DEF Ring
  <2>3. r \in Named(s)
    BY <1>2, <1>10, <2>1, <2>2, NamedAreElements DEF Ring
  <2>4. r \in U
    BY <1>6, <2>1, <2>3
  <2> QED
    BY <1>10, <2>2, <2>4 DEF Taken
<1>11. indegree' \in [Listed -> Nat]
  BY <1>6 DEF TakeReady
<1>12. U \subseteq Listed
  BY <1>2
<1> QED
  BY <1>1, <1>3, <1>6, <1>8, <1>9, <1>10, <1>11, <1>12, ListsStay DEF Taken

\* The invariant holds of every document before it is looked at.
LEMMA SortInvInit == Init => SortInv
<1> SUFFICES ASSUME Init
             PROVE  SortInv
  OBVIOUS
<1>1. DocumentTyped
  BY DEF Init, DocumentTyped, Stages
<1>2. TypeOK
  BY <1>1, GateAssumption DEF Init, TypeOK, DocumentTyped, Kinds
<1> QED
  BY <1>1, <1>2 DEF Init, SortInv, CyclesFound

\* The steps of the cycle check, up to its verdict.
LEMMA CycleCheckKeepsSort ==
  ASSUME SortInv,
         CheckShape \/ ShapeRaises \/ CyclesChecked \/ RollbackRefused \/ \E cur \in ready : TakeReady(cur)
  PROVE  SortInv'
<1>1. [Next]_vars
  BY DEF Next
<1>2. DocumentTyped /\ DocumentTyped' /\ TypeOK /\ Listed' = Listed /\ UNCHANGED document /\ Stages' = Stages
  BY <1>1, ListsStay, DocumentStays DEF SortInv
<1>3. CASE CheckShape
  <2>1. Taken({})'
    BY <1>2, <1>3, CheckShapeStarts DEF SortInv, CheckShape
  <2>2. "cycle" \notin errors' /\ errors' \subseteq Kinds
    BY <1>3 DEF CheckShape, Kinds
  <2>3. TypeOK'
    BY <1>2, <1>3, <2>1, <2>2 DEF TypeOK, CheckShape, Taken, document, walk
  <2> QED
    BY <1>2, <1>3, <2>1, <2>2, <2>3 DEF SortInv, CheckShape, CyclesFound
<1>4. CASE ShapeRaises
  <2>1. TypeOK'
    BY <1>2, <1>4 DEF TypeOK, ShapeRaises, document, cycles, walk
  <2> QED
    BY <1>2, <1>4, <2>1 DEF SortInv, ShapeRaises, CyclesFound
<1>5. ASSUME NEW cur \in ready, TakeReady(cur)
      PROVE  SortInv'
  <2>1. PICK T \in SUBSET Stages : Taken(T)
    BY <1>5 DEF SortInv, TakeReady
  <2>2. Taken(T \cup {cur})'
    BY <1>2, <1>5, <2>1, TakeReadyTakes
  <2>3. T \cup {cur} \in SUBSET Stages'
    BY <1>2, <1>5, <2>1 DEF Taken, Listed
  <2>4. TypeOK'
    BY <1>2, <1>5, <2>2 DEF TypeOK, TakeReady, Taken, document, walk
  <2> QED
    BY <1>2, <1>5, <2>2, <2>3, <2>4 DEF SortInv, TakeReady, CyclesFound
<1>6. CASE CyclesChecked
  <2>1. PICK T \in SUBSET Stages : Taken(T)
    BY <1>6 DEF SortInv, CyclesChecked
  <2>2. AllTaken <=> ~ (Cyclic \/ Repeats \/ Listless)
    BY <1>2, <1>6, <2>1, AllTakenMeansSorted DEF CyclesChecked
  <2>3. "cycle" \in errors' <=> ~ AllTaken
    BY <1>6 DEF SortInv, CyclesChecked
  <2>4. CyclesFound'
    BY <1>1, <2>2, <2>3, ListsStay DEF CyclesFound
  <2>5. TypeOK'
    BY <1>2, <1>6 DEF TypeOK, CyclesChecked, document, cycles, walk, Kinds
  <2> QED
    BY <1>2, <1>6, <2>4, <2>5 DEF SortInv, CyclesChecked
<1>7. CASE RollbackRefused
  <2>1. PICK T \in SUBSET Stages : Taken(T)
    BY <1>7 DEF SortInv, RollbackRefused
  <2>2. ~ (Cyclic \/ Repeats \/ Listless)
    BY <1>2, <1>7, <2>1, AllTakenMeansSorted DEF RollbackRefused
  <2>3. CyclesFound'
    BY <1>1, <1>7, <2>2, ListsStay DEF CyclesFound, RollbackRefused
  <2>4. TypeOK'
    BY <1>2, <1>7 DEF TypeOK, RollbackRefused, document, cycles, walk, Kinds
  <2> QED
    BY <1>2, <1>7, <2>3, <2>4 DEF SortInv, RollbackRefused
<1> QED
  BY <1>3, <1>4, <1>5, <1>6, <1>7

\* After the verdict on cycles no step adds one or takes one back.
LEMMA VerdictStays ==
  ASSUME SortInv, [Next]_vars, TypeOK', pc \notin {"shape", "cycles", "raised"},
         pc' \notin {"shape", "cycles", "policy"}, "cycle" \in errors' <=> "cycle" \in errors
  PROVE  SortInv'
<1>1. CyclesFound'
  BY ListsStay DEF SortInv, CyclesFound
<1> QED
  BY <1>1, ListsStay DEF SortInv

\* The steps of the policy and of the execution.
LEMMA PolicyKeepsSort ==
  ASSUME SortInv,
         \/ CheckPolicy \/ Walked \/ Decide
         \/ \E p \in left : StartWalk(p)
         \/ \E cur \in todo : Visit(cur)
         \/ \E s \in Stages : Start(s) \/ \E outcome \in {"passed", "failed"} : Finish(s, outcome)
  PROVE  SortInv'
<1>1. [Next]_vars
  BY DEF Next
<1>2. TypeOK /\ Listed' = Listed /\ UNCHANGED document /\ Stages' = Stages /\ requires' = requires
  BY <1>1, ListsStay, DocumentStays DEF SortInv
<1>3. \A s : Elements(Reqs(s)) \subseteq Stage
  BY <1>2, RequisitesAreRefs DEF TypeOK
<1>4. CASE CheckPolicy
  <2>1. Checks \subseteq Stage \X Stage
    BY GateAssumption DEF Checks, GatePairs, OrderPairs
  <2>2. errors' \subseteq Kinds
    BY <1>4 DEF CheckPolicy, Kinds
  <2>3. TypeOK'
    BY <1>2, <1>4, <2>1, <2>2 DEF TypeOK, CheckPolicy, document, cycles
  <2>4. "cycle" \notin errors' /\ "cycle" \notin errors
    BY <1>4 DEF SortInv, CheckPolicy
  <2> QED
    BY <1>1, <1>4, <2>3, <2>4, VerdictStays DEF CheckPolicy
<1>5. CASE Walked
  <2>1. TypeOK'
    BY <1>2, <1>5 DEF TypeOK, Walked, document, cycles, walk, Kinds
  <2> QED
    BY <1>1, <1>5, <2>1, VerdictStays DEF Walked
<1>6. CASE Decide
  <2>1. TypeOK'
    BY <1>2, <1>6 DEF TypeOK, Decide, document, cycles, walk
  <2> QED
    BY <1>1, <1>6, <2>1, VerdictStays DEF Decide
<1>7. ASSUME NEW p \in left, StartWalk(p)
      PROVE  SortInv'
  <2>1. TypeOK'
    BY <1>2, <1>3, <1>7 DEF TypeOK, StartWalk, document, cycles
  <2> QED
    BY <1>1, <1>7, <2>1, VerdictStays DEF StartWalk
<1>8. ASSUME NEW cur \in todo, Visit(cur)
      PROVE  SortInv'
  <2>1. todo' \subseteq Stage /\ seen' \subseteq Stages
    BY <1>2, <1>3, <1>8 DEF TypeOK, Visit
  <2>2. TypeOK'
    BY <1>2, <1>8, <2>1 DEF TypeOK, Visit, document, cycles
  <2> QED
    BY <1>1, <1>8, <2>2, VerdictStays DEF Visit
<1>9. ASSUME NEW s \in Stages, Start(s) \/ \E outcome \in {"passed", "failed"} : Finish(s, outcome)
      PROVE  SortInv'
  <2>1. pc = "accepted" /\ UNCHANGED <<pc, errors, cycles, walk>>
    BY <1>9 DEF Start, Finish
  <2>2. \E new \in {"running", "passed", "failed"} : status' = [status EXCEPT ![s] = new]
    BY <1>9 DEF Start, Finish
  <2>3. TypeOK'
    BY <1>2, <2>1, <2>2 DEF TypeOK, document, cycles, walk
  <2> QED
    BY <1>1, <2>1, <2>3, VerdictStays
<1> QED
  BY <1>4, <1>5, <1>6, <1>7, <1>8, <1>9

\* Every step of the validator and of the execution keeps the invariant.
LEMMA SortInvNext ==
  ASSUME SortInv, [Next]_vars
  PROVE  SortInv'
<1>1. CASE Next
  BY <1>1, CycleCheckKeepsSort, PolicyKeepsSort DEF Next
<1>2. CASE UNCHANGED vars
  <2>1. UNCHANGED <<pc, errors, cycles, status, walk, document>> /\ UNCHANGED <<indegree, ready, done>>
    BY <1>2 DEF vars, cycles
  <2>2. \A T : Taken(T)' <=> Taken(T)
    BY <2>1, ListsStay DEF Taken
  <2>3. TypeOK'
    BY <2>1, ListsStay, DocumentStays DEF SortInv, TypeOK, document, cycles, walk
  <2>4. CyclesFound' <=> CyclesFound
    BY <2>1, ListsStay DEF CyclesFound
  <2> QED
    BY <2>1, <2>2, <2>3, <2>4, ListsStay, DocumentStays DEF SortInv
<1> QED
  BY <1>1, <1>2

\* The validator keeps to its types: no count of requisites goes below zero,
\* whatever the lists repeat, name or lack (pipeline.py:157-166).
THEOREM GateTyped == Spec => []TypeOK
<1>1. SortInv => TypeOK
  BY DEF SortInv
<1> QED
  BY <1>1, SortInvInit, SortInvNext, PTL DEF Spec

\* _check_cycles (pipeline.py:150-169) is right for documents of any size and
\* in whatever order the ready stages are taken: it reports a cycle exactly
\* where stages wait for one another, or a requisite is repeated or no list.
THEOREM CyclesAreFound == Spec => []CyclesFound
<1>1. SortInv => CyclesFound
  BY DEF SortInv
<1> QED
  BY <1>1, SortInvInit, SortInvNext, PTL DEF Spec

------------------------------------------------------------------------------
(* The execution of what was let through *)

NamesRight == \A s \in Stages : s \notin Elements(Reqs(s)) /\ ~ NamesNoStage(s)

\* The policy overwrites the errors of the shape, but is only looked at when
\* there were none.
GoesOnInv ==
  /\ pc = "cycles" /\ errors = {} => NamesRight
  /\ pc \in {"policy", "pairs", "walk", "accepted"} => NamesRight
  /\ pc = "accepted" => errors = {}
  /\ \A s \in Stages : status[s] = "failed" => s = Gate

LEMMA GoesOnInvInit == Init => GoesOnInv
BY DEF Init, GoesOnInv

LEMMA GoesOnInvNext ==
  ASSUME TypeOK, GoesOnInv, [Next]_vars
  PROVE  GoesOnInv'
<1>1. Stages' = Stages /\ (NamesRight' <=> NamesRight)
  BY ListsStay, DocumentStays DEF NamesRight, NamesNoStage, Elements, Reqs
<1>2. CASE CheckShape
  <2>1. errors' = {} => NamesRight
    BY <1>2 DEF CheckShape, NamesRight
  <2> QED
    BY <1>1, <1>2, <2>1 DEF GoesOnInv, CheckShape
<1>3. CASE ShapeRaises \/ CyclesChecked \/ RollbackRefused \/ \E cur \in ready : TakeReady(cur)
  BY <1>1, <1>3 DEF GoesOnInv, ShapeRaises, CyclesChecked, RollbackRefused, TakeReady
<1>4. CASE \/ CheckPolicy \/ Walked \/ Decide
           \/ \E p \in left : StartWalk(p)
           \/ \E cur \in todo : Visit(cur)
  BY <1>1, <1>4 DEF GoesOnInv, CheckPolicy, Walked, Decide, StartWalk, Visit
<1>5. ASSUME NEW s \in Stages, Start(s) \/ \E outcome \in {"passed", "failed"} : Finish(s, outcome)
      PROVE  GoesOnInv'
  <2>1. UNCHANGED <<pc, errors>>
    BY <1>5 DEF Start, Finish
  <2>2. \A t \in Stages : status'[t] = "failed" => t = Gate
    BY <1>5 DEF TypeOK, GoesOnInv, Start, Finish
  <2> QED
    BY <1>1, <2>1, <2>2 DEF GoesOnInv
<1>6. CASE UNCHANGED vars
  BY <1>1, <1>6 DEF GoesOnInv, vars
<1> QED
  BY <1>2, <1>3, <1>4, <1>5, <1>6 DEF Next

\* Where nothing could go on, the waiting stages would be a ring.
LEMMA NothingIsStuck ==
  ASSUME SortInv, GoesOnInv
  PROVE  NeverStuck
<1> DEFINE W == {s \in Stages : status[s] = "waiting"}
<1> SUFFICES ASSUME pc = "accepted", ~ Finished, ~ (GateFailed /\ strict),
                    \A s \in Stages : status[s] # "running",
                    \A s \in W : ~ \A r \in Elements(Reqs(s)) : Over(r)
             PROVE  FALSE
  BY DEF NeverStuck
<1>1. \A s \in Stages : status[s] \in {"waiting", "passed", "failed"}
  BY DEF SortInv, TypeOK
<1>2. W # {}
  BY <1>1 DEF Finished
<1>3. ASSUME NEW s \in W
      PROVE  \E r \in W \ {s} : r \in Elements(Reqs(s))
  <2>1. PICK r \in Elements(Reqs(s)) : ~ Over(r)
    BY <1>3
  <2>2. r \in Stages /\ r # s
    BY <2>1 DEF GoesOnInv, NamesRight, NamesNoStage
  <2>3. status[r] # "failed"
    BY <2>1, <2>2 DEF GoesOnInv, Over, GateFailed
  <2>4. status[r] = "waiting"
    BY <1>1, <2>1, <2>2, <2>3 DEF Over
  <2> QED
    BY <2>1, <2>2, <2>4
<1>4. W \in (SUBSET Stages) \ {{}}
  BY <1>2
<1>5. Cyclic
  BY <1>3, <1>4, Zenon DEF Cyclic
<1> QED
  BY <1>5 DEF SortInv, CyclesFound, GoesOnInv

\* What deploy/SPINNAKER.md has the validator run for: whatever it lets
\* through, of any size, can always go on until its last stage is done or the
\* gate has stopped it (pipeline.py:140-169).
THEOREM AcceptedGoesOn == Spec => []NeverStuck
<1>1. Init => SortInv /\ GoesOnInv
  BY SortInvInit, GoesOnInvInit
<1>2. SortInv /\ GoesOnInv /\ [Next]_vars => (SortInv /\ GoesOnInv)'
  BY SortInvNext, GoesOnInvNext DEF SortInv
<1>3. SortInv /\ GoesOnInv => NeverStuck
  BY NothingIsStuck
<1> QED
  BY <1>1, <1>2, <1>3, PTL DEF Spec

------------------------------------------------------------------------------
(* The check and the execution come to an end *)

Phase ==
  CASE pc = "shape" -> 4
    [] pc = "cycles" -> 3
    [] pc = "policy" -> 2
    [] pc \in {"pairs", "walk"} -> 1
    [] OTHER -> 0

InStatus(st) == {s \in Stages : status[s] = st}

Untaken == Cardinality(Listed) - done
Unchecked == 2 * Cardinality(left) + (IF pc = "walk" THEN 1 ELSE 0)
Unseen == Cardinality(Stages \ seen)
Unvisited == Cardinality(todo)
Unfinished == 2 * Cardinality(InStatus("waiting")) + Cardinality(InStatus("running"))

\* What is still to do, the most significant count first.
Rank == <<Phase, Untaken, Unchecked, Unseen, Unvisited, Unfinished>>

Below(a, b) == \E i \in 1 .. 6 : a[i] < b[i] /\ \A j \in 1 .. (i - 1) : a[j] = b[j]

RankInv ==
  /\ SortInv /\ GateInv
  /\ IsFiniteSet(todo)
  /\ done <= Cardinality(Listed)

LEMMA Lowers ==
  ASSUME NEW S, IsFiniteSet(S), NEW x \in S
  PROVE  IsFiniteSet(S \ {x}) /\ Cardinality(S \ {x}) \in Nat /\ Cardinality(S) \in Nat
         /\ Cardinality(S \ {x}) < Cardinality(S)
<1>1. IsFiniteSet(S \ {x}) /\ Cardinality(S \ {x}) = Cardinality(S) - 1
  BY FS_RemoveElement
<1>2. Cardinality(S \ {x}) \in Nat /\ Cardinality(S) \in Nat
  BY <1>1, FS_CardinalityType
<1> QED
  BY <1>1, <1>2

\* All that is counted is finite, as the document is.
LEMMA CountedAreFinite ==
  ASSUME RankInv
  PROVE  /\ IsFiniteSet(Listed) /\ IsFiniteSet(left) /\ IsFiniteSet(Stages \ seen)
         /\ \A st : IsFiniteSet(InStatus(st))
         /\ \A s : IsFiniteSet(Elements(Reqs(s)))
<1>1. IsFiniteSet(Stages)
  BY DEF RankInv, SortInv, DocumentTyped
<1>2. Listed \in SUBSET Stages /\ Stages \ seen \in SUBSET Stages /\ \A st : InStatus(st) \in SUBSET Stages
  BY DEF Listed, InStatus
<1>3. left \in SUBSET (Stages \X Stages)
  BY DEF RankInv, GateInv, WalkTyped, SortInv, TypeOK
<1>4. IsFiniteSet(Stages \X Stages)
  BY <1>1, FS_Product
<1>5. ASSUME NEW s
      PROVE  IsFiniteSet(Elements(Reqs(s)))
  <2>1. Reqs(s) \in Seq(Stage)
    BY GateAssumption DEF RankInv, SortInv, DocumentTyped, Reqs, Listed
  <2>2. IsFiniteSet(1 .. Len(Reqs(s)))
    BY <2>1, FS_Interval
  <2> DEFINE f == [i \in 1 .. Len(Reqs(s)) |-> Reqs(s)[i]]
  <2>3. f \in Surjection(1 .. Len(Reqs(s)), Elements(Reqs(s)))
    BY <2>1 DEF Surjection, Elements
  <2> QED
    BY <2>2, <2>3, FS_Surjection
<1> QED
  BY <1>1, <1>2, <1>3, <1>4, <1>5, FS_Subset

LEMMA RankIsNatural ==
  ASSUME RankInv
  PROVE  /\ Phase \in Nat /\ Untaken \in Nat /\ Unchecked \in Nat
         /\ Unseen \in Nat /\ Unvisited \in Nat /\ Unfinished \in Nat
<1>1. Phase \in Nat
  BY DEF Phase
<1>2. /\ Cardinality(Listed) \in Nat /\ Cardinality(left) \in Nat /\ Unseen \in Nat
      /\ Cardinality(InStatus("waiting")) \in Nat /\ Cardinality(InStatus("running")) \in Nat
  BY CountedAreFinite, FS_CardinalityType DEF Unseen
<1>3. Unvisited \in Nat
  BY FS_CardinalityType DEF RankInv, Unvisited
<1>4. Untaken \in Nat
  BY <1>2 DEF Untaken, RankInv, SortInv, TypeOK
<1>5. Unchecked \in Nat /\ Unfinished \in Nat
  BY <1>2 DEF Unchecked, Unfinished
<1> QED
  BY <1>1, <1>2, <1>3, <1>4, <1>5

LEMMA RankInvNext ==
  ASSUME RankInv, [Next]_vars
  PROVE  RankInv'
<1>1. SortInv' /\ GateInv' /\ Listed' = Listed
  BY SortInvNext, GateInvNext, ListsStay DEF RankInv
<1>2. IsFiniteSet(todo')
  <2>1. CASE \/ CheckShape \/ ShapeRaises \/ CyclesChecked \/ RollbackRefused \/ CheckPolicy \/ Walked \/ Decide
             \/ \E cur \in ready : TakeReady(cur)
             \/ \E s \in Stages : Start(s) \/ \E outcome \in {"passed", "failed"} : Finish(s, outcome)
             \/ UNCHANGED vars
    BY <2>1 DEF RankInv, CheckShape, ShapeRaises, CyclesChecked, RollbackRefused, CheckPolicy, Walked, Decide,
       TakeReady, Start, Finish, walk, vars
  <2>2. ASSUME NEW p \in left, StartWalk(p)
        PROVE  IsFiniteSet(todo')
    BY <2>2, CountedAreFinite DEF StartWalk
  <2>3. ASSUME NEW cur \in todo, Visit(cur)
        PROVE  IsFiniteSet(todo')
    <3>1. IsFiniteSet(todo \ {cur})
      BY Lowers DEF RankInv
    <3>2. IsFiniteSet((todo \ {cur}) \cup Elements(Reqs(cur)))
      BY <3>1, CountedAreFinite, FS_Union
    <3> QED
      BY <2>3, <3>1, <3>2 DEF Visit
  <2> QED
    BY <2>1, <2>2, <2>3 DEF Next
<1>3. done' <= Cardinality(Listed)
  <2>1. CASE \/ CheckShape \/ ShapeRaises \/ CyclesChecked \/ RollbackRefused \/ CheckPolicy \/ Walked \/ Decide
             \/ \E p \in left : StartWalk(p)
             \/ \E cur \in todo : Visit(cur)
             \/ \E s \in Stages : Start(s) \/ \E outcome \in {"passed", "failed"} : Finish(s, outcome)
             \/ UNCHANGED vars
    BY <2>1 DEF RankInv, CheckShape, ShapeRaises, CyclesChecked, RollbackRefused, CheckPolicy, Walked, Decide,
       StartWalk, Visit, Start, Finish, cycles, vars
  <2>2. ASSUME NEW cur \in ready, TakeReady(cur)
        PROVE  done' <= Cardinality(Listed)
    <3>1. PICK T \in SUBSET Stages : Taken(T)'
      BY <1>1, <2>2, DocumentStays DEF SortInv, TakeReady, Next
    <3>2. T \in SUBSET Listed /\ done' = Cardinality(T)
      BY <1>1, <3>1 DEF Taken
    <3> QED
      BY <3>2, CountedAreFinite, FS_Subset
  <2> QED
    BY <2>1, <2>2 DEF Next
<1> QED
  BY <1>1, <1>2, <1>3 DEF RankInv

\* The steps of the validator: its phase ends, or a stage is taken, a pair
\* checked, a stage found, or a reference visited.
LEMMA ValidatorLowers ==
  ASSUME RankInv, Next, pc # "accepted"
  PROVE  Below(Rank', Rank)
<1>2. Listed' = Listed /\ Stages' = Stages
  BY ListsStay, DocumentStays
<1>3. Cardinality(Listed) \in Nat /\ done \in Nat
  BY CountedAreFinite, FS_CardinalityType DEF RankInv, SortInv, TypeOK
<1>4. CASE CheckShape \/ ShapeRaises \/ CyclesChecked \/ RollbackRefused \/ CheckPolicy \/ Decide
  <2>1. CASE CheckShape \/ ShapeRaises
    <3>1. Phase = 4 /\ Phase' \in {0, 3}
      BY <2>1 DEF Phase, CheckShape, ShapeRaises
    <3> QED
      BY <3>1 DEF Below, Rank
  <2>2. CASE CyclesChecked \/ RollbackRefused
    <3>1. pc = "cycles" /\ pc' \in {"rejected", "policy", "accepted"}
      BY <2>2 DEF CyclesChecked, RollbackRefused
    <3>2. Phase = 3 /\ Phase' \in {0, 2}
      BY <3>1 DEF Phase
    <3> QED
      BY <3>2 DEF Below, Rank
  <2>3. CASE CheckPolicy
    <3>1. Phase = 2 /\ Phase' = 1
      BY <2>3 DEF Phase, CheckPolicy
    <3> QED
      BY <3>1 DEF Below, Rank
  <2>4. CASE Decide
    <3>1. Phase = 1 /\ Phase' = 0
      BY <2>4 DEF Phase, Decide
    <3> QED
      BY <3>1 DEF Below, Rank
  <2> QED
    BY <1>4, <2>1, <2>2, <2>3, <2>4
<1>5. ASSUME NEW cur \in ready, TakeReady(cur)
      PROVE  Below(Rank', Rank)
  <2>1. Phase' = Phase /\ Untaken' < Untaken
    BY <1>2, <1>3, <1>5 DEF Phase, Untaken, TakeReady
  <2> QED
    BY <2>1 DEF Below, Rank
<1>6. ASSUME NEW p \in left, StartWalk(p)
      PROVE  Below(Rank', Rank)
  <2>1. Phase' = Phase /\ Untaken' = Untaken
    BY <1>2, <1>6 DEF Phase, Untaken, StartWalk, cycles
  <2>2. Cardinality(left \ {p}) < Cardinality(left) /\ Cardinality(left \ {p}) \in Nat /\ Cardinality(left) \in Nat
    BY CountedAreFinite, Lowers
  <2>3. Unchecked' < Unchecked
    BY <1>6, <2>2 DEF Unchecked, StartWalk
  <2> QED
    BY <2>1, <2>3 DEF Below, Rank
<1>7. ASSUME NEW cur \in todo, Visit(cur)
      PROVE  Below(Rank', Rank)
  <2>1. Phase' = Phase /\ Untaken' = Untaken /\ Unchecked' = Unchecked
    BY <1>2, <1>7 DEF Phase, Untaken, Unchecked, Visit, cycles
  <2>2. CASE cur \in seen \/ cur \notin Stages
    <3>1. Unseen' = Unseen /\ Unvisited' < Unvisited
      BY <1>2, <1>7, <2>2, Lowers DEF RankInv, Unseen, Unvisited, Visit
    <3> QED
      BY <2>1, <3>1 DEF Below, Rank
  <2>3. CASE cur \in Stages \ seen
    <3>1. Stages \ seen' = (Stages \ seen) \ {cur}
      BY <1>7, <2>3 DEF Visit
    <3>2. Unseen' < Unseen
      BY <1>2, <2>3, <3>1, CountedAreFinite, Lowers DEF Unseen
    <3> QED
      BY <2>1, <3>2 DEF Below, Rank
  <2> QED
    BY <2>2, <2>3
<1>8. CASE Walked
  <2>1. Phase' = Phase /\ Untaken' = Untaken
    BY <1>2, <1>8 DEF Phase, Untaken, Walked, cycles
  <2>2. Cardinality(left) \in Nat
    BY CountedAreFinite, FS_CardinalityType
  <2>3. Unchecked' < Unchecked
    BY <1>8, <2>2 DEF Unchecked, Walked, walk
  <2> QED
    BY <2>1, <2>3 DEF Below, Rank
<1> QED
  BY <1>4, <1>5, <1>6, <1>7, <1>8 DEF Next, Start, Finish

\* The steps of the execution: a stage is started or finished, each once.
LEMMA ExecutionLowers ==
  ASSUME RankInv, Next, pc = "accepted"
  PROVE  Below(Rank', Rank)
<1>1. PICK s \in Stages : Start(s) \/ \E outcome \in {"passed", "failed"} : Finish(s, outcome)
  BY DEF Next, CheckShape, ShapeRaises, CyclesChecked, RollbackRefused, CheckPolicy, Decide, TakeReady,
     StartWalk, Visit, Walked
<1>2. Listed' = Listed /\ Stages' = Stages /\ UNCHANGED <<pc, cycles, walk>>
  BY <1>1, ListsStay, DocumentStays DEF Start, Finish
<1>3. Phase' = Phase /\ Untaken' = Untaken /\ Unchecked' = Unchecked /\ Unseen' = Unseen /\ Unvisited' = Unvisited
  BY <1>2 DEF Phase, Untaken, Unchecked, Unseen, Unvisited, cycles, walk
<1>4. /\ IsFiniteSet(InStatus("waiting")) /\ IsFiniteSet(InStatus("running"))
      /\ Cardinality(InStatus("waiting")) \in Nat /\ Cardinality(InStatus("running")) \in Nat
  BY CountedAreFinite, FS_CardinalityType
<1>5. status \in [Stages -> {"waiting", "running", "passed", "failed"}]
  BY DEF RankInv, SortInv, TypeOK
<1>6. Unfinished' < Unfinished
  <2>1. CASE Start(s)
    <3>1. InStatus("waiting")' = InStatus("waiting") \ {s} /\ s \in InStatus("waiting")
      BY <1>2, <1>5, <2>1 DEF InStatus, Start
    <3>2. InStatus("running")' = InStatus("running") \cup {s} /\ s \notin InStatus("running")
      BY <1>2, <1>5, <2>1 DEF InStatus, Start
    <3>3. Cardinality(InStatus("waiting")') = Cardinality(InStatus("waiting")) - 1
      BY <1>4, <3>1, FS_RemoveElement
    <3>4. Cardinality(InStatus("running")') = Cardinality(InStatus("running")) + 1
      BY <1>4, <3>2, FS_AddElement
    <3> QED
      BY <1>4, <3>3, <3>4 DEF Unfinished
  <2>2. ASSUME NEW outcome \in {"passed", "failed"}, Finish(s, outcome)
        PROVE  Unfinished' < Unfinished
    <3>1. InStatus("waiting")' = InStatus("waiting")
      BY <1>2, <1>5, <2>2 DEF InStatus, Finish
    <3>2. InStatus("running")' = InStatus("running") \ {s} /\ s \in InStatus("running")
      BY <1>2, <1>5, <2>2 DEF InStatus, Finish
    <3>3. Cardinality(InStatus("running")') = Cardinality(InStatus("running")) - 1
      BY <1>4, <3>2, FS_RemoveElement
    <3> QED
      BY <1>4, <3>1, <3>3 DEF Unfinished
  <2> QED
    BY <1>1, <2>1, <2>2
<1> QED
  BY <1>3, <1>6 DEF Below, Rank

\* The check of a document ends, and so does the execution of what it let
\* through (pipeline.py:140-199): every step lowers a measure of what is left
\* to do, six numbers compared from the first.  With NeverStuck this is what
\* AcceptedRuns says, up to the fairness that the steps are taken at all; in
\* particular the walk over the ancestors ends on requisites in a ring.
THEOREM EveryStepLowersRank ==
  Spec => [](Rank \in Nat \X Nat \X Nat \X Nat \X Nat \X Nat) /\ [][Below(Rank', Rank)]_vars
<1>1. Init => RankInv
  <2> SUFFICES ASSUME Init
               PROVE  RankInv
    OBVIOUS
  <2>1. SortInv
    BY SortInvInit
  <2>2. IsFiniteSet(Listed)
    BY <2>1, FS_Subset DEF SortInv, DocumentTyped, Listed
  <2> QED
    BY <2>1, <2>2, GateInvInit, FS_EmptySet, FS_CardinalityType DEF Init, RankInv
<1>2. RankInv /\ [Next]_vars => RankInv'
  BY RankInvNext
<1>3. RankInv => Rank \in Nat \X Nat \X Nat \X Nat \X Nat \X Nat
  BY RankIsNatural DEF Rank
<1>4. RankInv /\ [Next]_vars => [Below(Rank', Rank)]_vars
  BY ValidatorLowers, ExecutionLowers
<1> QED
  BY <1>1, <1>2, <1>3, <1>4, PTL DEF Spec
==============================================================================
