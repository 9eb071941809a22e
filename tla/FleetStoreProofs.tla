---------------------------- MODULE FleetStoreProofs ----------------------------
(***************************************************************************)
(* The state file under every interleaving of commands, sweeps and kills:  *)
(* types, mutual exclusion, what a private copy may differ in.             *)
(***************************************************************************)
EXTENDS FleetStore, RunnerLifecycleProofs

------------------------------------------------------------------------------
(* Types *)

\* What a process has in memory by the place it has reached.
Shape(p) ==
  /\ InTransaction(p) => mem[p] \in Fleet
  /\ pc[p] \in {"boot", "teardown"} => target[p] \in Runner
  /\ pc[p] = "boot" => req[p] \in Acquires /\ req[p].job \in Job
  /\ pc[p] = "replace" => temp[p] = mem[p]

TInv == TypeOK /\ NeverTorn /\ \A p \in Proc : Shape(p)

\* A fresh fleet is a fleet, and so is whatever a load makes of the file.
LEMMA LoadedTyped ==
  ASSUME TInv
  PROVE  FreshFleet \in Fleet /\ Committed \in Fleet
<1>1. Fresh \in Record
  BY DEF Fresh, Record, RunnerState
<1>2. FreshFleet \in Fleet
  BY <1>1 DEF FreshFleet, Fleet
<1> QED
  BY <1>2 DEF TInv, NeverTorn, TypeOK, Committed, Loaded

\* A refused command line is all an empty job leads to.
LEMMA AdmissibleTyped ==
  ASSUME NEW q \in Acquires, NEW fleet, Admissible(q, fleet)
  PROVE  /\ Chosen(q, fleet) \in Runner /\ q.job \in Job
         /\ q.ttl \in Nat /\ q.ttl > 0 /\ q.tart \in BOOLEAN
         /\ CanLease(fleet[Chosen(q, fleet)], q.job, q.ttl)
  BY StoreAssumption DEF Admissible, CanLease, IsAcquire

\* A VM operation that ends leaves everything typed.
LEMMA SettleTyped ==
  ASSUME TInv, NEW c \in Proc, pc[c] \in {"boot", "teardown"},
         NEW n \in Record, NEW s \in {"success", "failure"}, Settle(c, n, s)
  PROVE  TInv'
<1>1. mem[c] \in Fleet /\ target[c] \in Runner
  BY DEF TInv, Shape, InTransaction, Holding
<1>2. mem' \in [Proc -> Fleet \cup {Absent}] /\ mem'[c] \in Fleet
  BY <1>1 DEF Settle, TInv, TypeOK, Fleet
<1>3. TypeOK'
  BY <1>2 DEF Settle, Goto, TInv, TypeOK, Holding
<1>4. Shape(c)'
  BY <1>2 DEF Settle, Goto, TInv, TypeOK, Shape, InTransaction, Holding
<1>5. ASSUME NEW p \in Proc, p # c
      PROVE  Shape(p)'
  BY <1>5 DEF Settle, Goto, TInv, TypeOK, Shape, InTransaction, Holding
<1> QED
  BY <1>3, <1>4, <1>5 DEF TInv, NeverTorn, Settle

\* Every step keeps everything typed.
LEMMA TypedStep == TInv /\ [Next]_vars => TInv'
<1> SUFFICES ASSUME TInv, [Next]_vars PROVE TInv'
  OBVIOUS
<1> USE DEF Goto, local, NeverTorn
<1>1. ASSUME NEW p \in Proc, Flock(p) \/ StartSweep(p) \/ Restart(p)
      PROVE  TInv'
  BY <1>1 DEF Flock, LockFree, StartSweep, Restart, TInv, TypeOK, Shape, InTransaction, Holding
<1>2. ASSUME NEW p \in Proc, Invoke(p)
      PROVE  TInv'
  BY <1>2 DEF Invoke, TInv, TypeOK, Shape, InTransaction, Holding
<1>3. ASSUME NEW p \in Proc, Load(p)
      PROVE  TInv'
  BY <1>3, LoadedTyped DEF Load, TInv, TypeOK, Shape, InTransaction, Holding
<1>4. ASSUME NEW p \in Proc, \/ AcquireRefused(p) \/ ReleaseRefused(p)
                             \/ ReaperFails(p) \/ VmOpRaises(p) \/ SweepEnds(p) \/ LoadFails(p)
      PROVE  TInv'
  BY <1>4 DEF AcquireRefused, ReleaseRefused, ReaperFails, VmOpRaises, SweepEnds, LoadFails,
              AtAcquire, AtRelease, TInv, TypeOK, Shape, InTransaction, Holding
<1>5. ASSUME NEW p \in Proc, LeaseRunner(p)
      PROVE  TInv'
  <2> DEFINE r == Chosen(req[p], mem[p])
             n == Lease(mem[p][r], req[p].job, req[p].ttl, now)
  <2>1. /\ r \in Runner /\ req[p] \in Acquires /\ req[p].job \in Job /\ req[p].ttl \in Nat
        /\ mem[p] \in Fleet
    BY <1>5, AdmissibleTyped DEF LeaseRunner, AtAcquire, TInv, Shape, InTransaction, Holding
  <2>2. n \in Record
    <3>1. mem[p][r] \in Record /\ now + req[p].ttl \in Nat
      BY <2>1, StoreAssumption DEF Fleet, TInv, TypeOK
    <3>2. QED
      BY <2>1, <3>1 DEF Lease, Record, RunnerState
  <2>3. mem' = [mem EXCEPT ![p] = [mem[p] EXCEPT ![r] = n]]
    BY <1>5 DEF LeaseRunner
  <2>4. mem' \in [Proc -> Fleet \cup {Absent}] /\ mem'[p] \in Fleet
    BY <2>1, <2>2, <2>3 DEF TInv, TypeOK, Fleet
  <2>5. /\ target' = [target EXCEPT ![p] = r]
        /\ pc' = [pc EXCEPT ![p] = "boot"] \/ pc' = [pc EXCEPT ![p] = "save"]
        /\ said' = said \/ said' = [said EXCEPT ![p] = "success"]
        /\ UNCHANGED <<file, lock, now, req, todo, temp, grants>>
    BY <1>5 DEF LeaseRunner
  <2>6. TypeOK'
    BY <2>1, <2>4, <2>5 DEF TInv, TypeOK, Holding
  <2>7. ASSUME NEW x \in Proc PROVE Shape(x)'
    BY <2>1, <2>3, <2>4, <2>5 DEF TInv, TypeOK, Shape, InTransaction, Holding
  <2> QED
    BY <2>5, <2>6, <2>7 DEF TInv
<1>6. ASSUME NEW p \in Proc, BootVm(p)
      PROVE  TInv'
  <2> DEFINE r == mem[p][target[p]]
             name == VmNameFor[target[p]][req[p].job]
  <2>1. r \in Record /\ name \in VmName
    BY <1>6, StoreAssumption DEF BootVm, TInv, Shape, InTransaction, Holding, Fleet
  <2>2. AttachVm(r, name) \in Record /\ AbortLease(r) \in Record /\ StrandVm(r, name) \in Record
    BY <2>1 DEF AttachVm, AbortLease, StrandVm, Quarantine, Record, RunnerState
  <2>3. \/ Settle(p, AttachVm(r, name), "success")
        \/ Settle(p, AbortLease(r), "failure")
        \/ Settle(p, StrandVm(r, name), "failure")
    BY <1>6 DEF BootVm
  <2>4. pc[p] = "boot"
    BY <1>6 DEF BootVm
  <2> QED
    BY <2>2, <2>3, <2>4, SettleTyped
<1>7. ASSUME NEW p \in Proc, ReleaseRunner(p)
      PROVE  TInv'
  <2> DEFINE r == req[p].runner
  <2>1. r \in Runner /\ mem[p] \in Fleet
    BY <1>7 DEF ReleaseRunner, Releasable, AtRelease, TInv, Shape, InTransaction, Holding
  <2>2. Release(mem[p][r]) \in Record
    BY <2>1 DEF Fleet, Release, Record, RunnerState
  <2>3. mem' = [mem EXCEPT ![p] = [mem[p] EXCEPT ![r] = Release(mem[p][r])]]
    BY <1>7 DEF ReleaseRunner
  <2>4. mem' \in [Proc -> Fleet \cup {Absent}] /\ mem'[p] \in Fleet
    BY <2>1, <2>2, <2>3 DEF TInv, TypeOK, Fleet
  <2>5. /\ target' = [target EXCEPT ![p] = r]
        /\ pc' = [pc EXCEPT ![p] = "teardown"] \/ pc' = [pc EXCEPT ![p] = "save"]
        /\ said' = said \/ said' = [said EXCEPT ![p] = "success"]
        /\ UNCHANGED <<file, lock, now, req, todo, temp, grants>>
    BY <1>7 DEF ReleaseRunner
  <2>6. TypeOK'
    BY <2>1, <2>4, <2>5 DEF TInv, TypeOK, Holding
  <2>7. ASSUME NEW x \in Proc PROVE Shape(x)'
    BY <2>1, <2>3, <2>4, <2>5 DEF TInv, TypeOK, Shape, InTransaction, Holding
  <2> QED
    BY <2>5, <2>6, <2>7 DEF TInv
<1>8. ASSUME NEW p \in Proc, TeardownVm(p)
      PROVE  TInv'
  <2> DEFINE r == mem[p][target[p]]
  <2>1. r \in Record
    BY <1>8 DEF TeardownVm, TInv, Shape, InTransaction, Holding, Fleet
  <2>2. DetachVm(r) \in Record /\ Quarantine(r) \in Record
    BY <2>1 DEF DetachVm, Quarantine, Record, RunnerState
  <2>3. \/ Settle(p, DetachVm(r), "success")
        \/ Settle(p, Quarantine(r), "failure")
    BY <1>8 DEF TeardownVm
  <2>4. pc[p] = "teardown"
    BY <1>8 DEF TeardownVm
  <2> QED
    BY <2>2, <2>3, <2>4, SettleTyped
<1>9. ASSUME NEW p \in Proc, Reap(p)
      PROVE  TInv'
  <2> DEFINE reaped == [r \in Runner |-> ReapOne(mem[p][r], now)]
  <2>1. mem[p] \in Fleet
    BY <1>9 DEF Reap, TInv, Shape, InTransaction, Holding
  <2>2. reaped \in Fleet
    BY <2>1 DEF ReapOne, Quarantine, Record, RunnerState, Fleet
  <2>3. /\ mem' = [mem EXCEPT ![p] = reaped]
        /\ \/ todo' = [todo EXCEPT ![p] = {r \in Runner : Stuck(reaped[r])}]
           \/ todo' = [todo EXCEPT ![p] = {}]
        /\ pc' = [pc EXCEPT ![p] = "sweep"]
        /\ UNCHANGED <<file, lock, now, req, target, temp, said, grants>>
    BY <1>9 DEF Reap
  <2> HIDE DEF reaped
  <2>4. todo' \in [Proc -> SUBSET Runner]
    BY <2>3 DEF TInv, TypeOK
  <2> QED
    BY <2>2, <2>3, <2>4 DEF TInv, TypeOK, Shape, InTransaction, Holding
<1>10. ASSUME NEW p \in Proc, SweepVm(p)
       PROVE  TInv'
  <2>1. PICK r \in todo[p] :
          /\ todo' = [todo EXCEPT ![p] = todo[p] \ {r}]
          /\ \/ mem' = [mem EXCEPT ![p] = [mem[p] EXCEPT ![r] = DetachVm(mem[p][r])]]
             \/ mem' = mem
    BY <1>10 DEF SweepVm
  <2>2. mem[p] \in Fleet /\ r \in Runner
    BY <1>10, <2>1 DEF SweepVm, TInv, TypeOK, Shape, InTransaction, Holding
  <2>3. DetachVm(mem[p][r]) \in Record
    BY <2>2 DEF DetachVm, Record, Fleet
  <2>4. mem' \in [Proc -> Fleet \cup {Absent}] /\ mem'[p] \in Fleet
    <3>1. [mem[p] EXCEPT ![r] = DetachVm(mem[p][r])] \in Fleet
      BY <2>2, <2>3 DEF Fleet
    <3>2. QED
      BY <2>1, <2>2, <3>1 DEF TInv, TypeOK
  <2>5. pc[p] = "sweep" /\ UNCHANGED <<file, lock, now, pc, req, target, temp, said, grants>>
    BY <1>10 DEF SweepVm
  <2>6. TypeOK'
    BY <2>1, <2>4, <2>5 DEF TInv, TypeOK
  <2>7. ASSUME NEW x \in Proc PROVE Shape(x)'
    BY <2>1, <2>4, <2>5 DEF TInv, TypeOK, Shape, InTransaction, Holding
  <2> QED
    BY <2>5, <2>6, <2>7 DEF TInv
<1>11. ASSUME NEW p \in Proc, CreateTemp(p) \/ SaveFails(p) \/ WriteTemp(p)
       PROVE  TInv'
  BY <1>11 DEF CreateTemp, SaveFails, WriteTemp, Written, TInv, TypeOK, Shape, InTransaction, Holding
<1>12. ASSUME NEW p \in Proc, Replace(p)
       PROVE  TInv'
  <2>1. file' \in Fleet
    BY <1>12 DEF Replace, TInv, Shape, InTransaction, Holding
  <2>2. file' # Torn
    BY <2>1, StoreAssumption DEF Fleet
  <2> QED
    BY <1>12, <2>1, <2>2 DEF Replace, TInv, TypeOK, Shape, InTransaction, Holding
<1>13. ASSUME NEW p \in Proc, NEW l \in {"idle", "down"}, Leave(p, l),
              file' = file, now' = now, grants' \in [Runner -> Nat]
       PROVE  TInv'
  BY <1>13 DEF Leave, Unlocked, TInv, TypeOK, Shape, InTransaction, Holding
<1>14. ASSUME NEW p \in Proc, Exit(p) \/ EndSweep(p) \/ Kill(p)
       PROVE  TInv'
  <2>1. grants' \in [Runner -> Nat]
    BY <1>14 DEF Exit, EndSweep, Kill, TInv, TypeOK
  <2>2. file' = file /\ now' = now /\ \E l \in {"idle", "down"} : Leave(p, l)
    BY <1>14, Zenon DEF Exit, EndSweep, Kill
  <2> QED
    BY <1>13, <2>1, <2>2
<1>15. CASE Tick
  BY <1>15, StoreAssumption DEF Tick, TInv, TypeOK, Shape, InTransaction
<1>16. CASE UNCHANGED vars
  BY <1>16 DEF vars, TInv, TypeOK, Shape, InTransaction
<1> QED
  BY <1>1, <1>2, <1>3, <1>4, <1>5, <1>6, <1>7, <1>8, <1>9, <1>10, <1>11, <1>12, <1>14,
     <1>15, <1>16
     DEF Next, CliStep, ReaperStep, Transact, Proc

LEMMA TypedInit == Init => TInv
<1> SUFFICES ASSUME Init PROVE TInv
  OBVIOUS
<1>1. FreshFleet \in Fleet
  BY DEF FreshFleet, Fresh, Fleet, Record, RunnerState
<1>2. NeverTorn
  BY <1>1, StoreAssumption DEF Init, NeverTorn, Fleet
<1> QED
  BY <1>1, <1>2, StoreAssumption DEF Init, TInv, TypeOK, Shape, InTransaction, Holding

\* Every variable keeps its type, whatever the processes do.
THEOREM Typed == Spec => []TypeOK
<1>1. TInv => TypeOK
  BY DEF TInv
<1> QED
  BY <1>1, TypedInit, TypedStep, PTL DEF Spec
==============================================================================
