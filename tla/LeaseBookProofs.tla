---------------------------- MODULE LeaseBookProofs ----------------------------
(***************************************************************************)
(* The lease book keeps its promises for every set of runners, jobs and    *)
(* lease lengths, and for ever.                                            *)
(***************************************************************************)
EXTENDS LeaseBook, RunnerLifecycleProofs

\* Types and agreement of fields: the invariant of the book.
IInv == TypeOK /\ RecordsCoherent

\* The records a sweep leaves: a record it freed of its VM, or only judged.
LEMMA SweptRecord ==
  ASSUME IInv, NEW t \in 0 .. now, NEW gone \in SUBSET Runner, NEW r \in Runner,
         NEW n,
         r \in gone => Stuck(ReapOne(book[r], t)),
         n = IF r \in gone THEN DetachVm(ReapOne(book[r], t)) ELSE ReapOne(book[r], t)
  PROVE  n \in Record /\ Coherent(n) /\ Forward(book[r], n) /\ VmKept(book[r], n)
<1>1. book[r] \in Record /\ t \in Nat /\ Coherent(book[r])
  BY BookAssumption DEF IInv, TypeOK, RecordsCoherent
<1>2. ReapOne(book[r], t) \in Record /\ DetachVm(ReapOne(book[r], t)) \in Record
  BY <1>1 DEF ReapOne, Quarantine, DetachVm, Record, RunnerState
<1> QED
  BY <1>1, <1>2, EndCoherent, EndForward, VmKeptAtEnd

\* What one step does to one record, whichever step it is.
LEMMA StepOnRecord ==
  ASSUME IInv, [Next]_vars, NEW r \in Runner
  PROVE  /\ book' \in [Runner -> Record]
         /\ Coherent(book'[r])
         /\ Forward(book[r], book'[r])
         /\ VmKept(book[r], book'[r])
<1> USE BookAssumption DEF IInv, TypeOK, RecordsCoherent
<1>1. ASSUME NEW x \in Runner, Grant(x)
      PROVE  /\ book' \in [Runner -> Record]
             /\ Coherent(book'[r]) /\ Forward(book[r], book'[r])
             /\ VmKept(book[r], book'[r])
  <2>1. PICK j \in Job, ttl \in Ttl, t \in 0 .. now :
          /\ CanLease(book[x], j, ttl)
          /\ \/ book' = [book EXCEPT ![x] = Lease(book[x], j, ttl, t)]
             \/ book' = [book EXCEPT ![x] = AttachVm(Lease(book[x], j, ttl, t), VmNameFor[x][j])]
    BY <1>1 DEF Grant
  <2>2. ttl \in Nat /\ t \in Nat /\ VmNameFor[x][j] \in VmName /\ book[x].state = "ready"
    <3>1. VmNameFor[x][j] \in VmName
      OBVIOUS
    <3> QED
      BY <2>1, <3>1 DEF CanLease
  <2>3. /\ Lease(book[x], j, ttl, t) \in Record
        /\ AttachVm(Lease(book[x], j, ttl, t), VmNameFor[x][j]) \in Record
    <3>1. Lease(book[x], j, ttl, t) \in Record
      BY <2>2, RecordTyped
    <3>2. QED
      BY <2>2, <3>1 DEF AttachVm, Record
  <2>4. /\ Coherent(Lease(book[x], j, ttl, t))
        /\ Coherent(AttachVm(Lease(book[x], j, ttl, t), VmNameFor[x][j]))
    BY <2>2, LeaseCoherent
  <2>5. /\ Forward(book[x], Lease(book[x], j, ttl, t))
        /\ Forward(book[x], AttachVm(Lease(book[x], j, ttl, t), VmNameFor[x][j]))
    BY <2>2, LeaseForward
  <2>6. Forward(book[r], book[r]) /\ VmKept(book[r], book[r])
    BY EndForward, VmKeptAtEnd
  <2>7. VmKept(book[x], book'[x])
    BY <2>2, ReadyHasNoVm
  <2> QED
    BY <2>1, <2>3, <2>4, <2>5, <2>6, <2>7
<1>2. ASSUME NEW x \in Runner, Strand(x)
      PROVE  /\ book' \in [Runner -> Record]
             /\ Coherent(book'[r]) /\ Forward(book[r], book'[r])
             /\ VmKept(book[r], book'[r])
  <2>1. PICK j \in Job :
          /\ book[x].state = "ready"
          /\ book' = [book EXCEPT ![x] = StrandVm(book[x], VmNameFor[x][j])]
    BY <1>2 DEF Strand, CanLease
  <2>2. VmNameFor[x][j] \in VmName
    OBVIOUS
  <2>3. StrandVm(book[x], VmNameFor[x][j]) \in Record
    BY <2>2 DEF StrandVm, Quarantine, Record, RunnerState
  <2>4. Coherent(StrandVm(book[x], VmNameFor[x][j]))
    BY <2>1, <2>2, StrandSound
  <2>5. Forward(book[x], StrandVm(book[x], VmNameFor[x][j]))
    BY <2>1, <2>2, StrandSound
  <2>6. Forward(book[r], book[r]) /\ VmKept(book[r], book[r])
    BY EndForward, VmKeptAtEnd
  <2>7. VmKept(book[x], book'[x])
    BY <2>1, ReadyHasNoVm
  <2> QED
    BY <2>1, <2>3, <2>4, <2>5, <2>6, <2>7
<1>3. ASSUME NEW x \in Runner, Finish(x)
      PROVE  /\ book' \in [Runner -> Record]
             /\ Coherent(book'[r]) /\ Forward(book[r], book'[r])
             /\ VmKept(book[r], book'[r])
  <2>1. /\ book[x].state = "leased"
        /\ \/ book' = [book EXCEPT ![x] = DetachVm(Release(book[x]))]
           \/ book' = [book EXCEPT ![x] = Quarantine(book[x])]
    BY <1>3 DEF Finish, CanRelease
  <2>2. DetachVm(Release(book[x])) \in Record /\ Quarantine(book[x]) \in Record
    BY DEF DetachVm, Release, Quarantine, Record, RunnerState
  <2>3. Coherent(DetachVm(Release(book[x]))) /\ Coherent(Quarantine(book[x]))
    BY EndCoherent
  <2>4. Forward(book[x], DetachVm(Release(book[x]))) /\ Forward(book[x], Quarantine(book[x]))
    BY <2>1, EndForward
  <2>5. VmKept(book[x], DetachVm(Release(book[x]))) /\ VmKept(book[x], Quarantine(book[x]))
    BY VmKeptAtEnd
  <2>6. Forward(book[r], book[r]) /\ VmKept(book[r], book[r])
    BY EndForward, VmKeptAtEnd
  <2> QED
    BY <2>1, <2>2, <2>3, <2>4, <2>5, <2>6
<1>4. ASSUME Sweep
      PROVE  /\ book' \in [Runner -> Record]
             /\ Coherent(book'[r]) /\ Forward(book[r], book'[r])
             /\ VmKept(book[r], book'[r])
  <2>1. PICK t \in 0 .. now, gone \in SUBSET Runner :
          /\ \A x \in gone : Stuck(ReapOne(book[x], t))
          /\ book' = [x \in Runner |-> IF x \in gone THEN DetachVm(ReapOne(book[x], t))
                                                     ELSE ReapOne(book[x], t)]
    BY <1>4, Zenon DEF Sweep
  <2>2. ASSUME NEW x \in Runner
        PROVE  /\ book'[x] \in Record /\ Coherent(book'[x])
               /\ Forward(book[x], book'[x]) /\ VmKept(book[x], book'[x])
    BY <2>1, SweptRecord
  <2> QED
    BY <2>1, <2>2
<1>5. ASSUME Tick \/ UNCHANGED vars
      PROVE  /\ book' \in [Runner -> Record]
             /\ Coherent(book'[r]) /\ Forward(book[r], book'[r])
             /\ VmKept(book[r], book'[r])
  BY <1>5, EndForward, VmKeptAtEnd DEF Tick, vars
<1> QED
  BY <1>1, <1>2, <1>3, <1>4, <1>5 DEF Next

\* Every record of the book is a record, and its fields agree, for ever.
THEOREM BookInvariant == Spec => [](TypeOK /\ RecordsCoherent)
<1>1. Init => IInv
  BY FreshCoherent, BookAssumption
     DEF Init, IInv, TypeOK, RecordsCoherent, Record, RunnerState, Fresh
<1>2. IInv /\ [Next]_vars => IInv'
  <2> SUFFICES ASSUME IInv, [Next]_vars PROVE IInv'
    OBVIOUS
  <2>1. now' \in 0 .. MaxTime
    <3>1. now' = now \/ (now < MaxTime /\ now' = now + 1)
      BY Zenon DEF Next, vars, Grant, Strand, Finish, Sweep, Tick
    <3> QED
      BY <3>1, BookAssumption DEF IInv, TypeOK
  <2>2. \A r \in Runner : book' \in [Runner -> Record] /\ Coherent(book'[r])
    BY StepOnRecord
  <2>3. book' \in [Runner -> Record]
    BY <2>2 DEF IInv, TypeOK, Next, vars, Grant, Strand, Finish, Sweep, Tick
  <2> QED
    BY <2>1, <2>2, <2>3 DEF IInv, TypeOK, RecordsCoherent
<1> QED
  BY <1>1, <1>2, PTL DEF Spec, IInv

\* Runners are single-use: the life of every record only goes forward.
THEOREM BookForward == Spec => LifecycleForward
<1>1. IInv /\ [Next]_vars => [\A r \in Runner : Forward(book[r], book'[r])]_vars
  BY StepOnRecord
<1> QED
  BY <1>1, BookInvariant, PTL DEF Spec, LifecycleForward, IInv

\* A recorded VM stays recorded until it has been torn down.
THEOREM BookKeepsVms == Spec => VmStaysRecorded
<1>1. IInv /\ [Next]_vars => [\A r \in Runner : VmKept(book[r], book'[r])]_vars
  BY StepOnRecord
<1> QED
  BY <1>1, BookInvariant, PTL DEF Spec, VmStaysRecorded, IInv
================================================================================
