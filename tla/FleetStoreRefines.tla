--------------------------- MODULE FleetStoreRefines ---------------------------
(***************************************************************************)
(* The state file implements the lease book.  The inductive invariant says *)
(* how far each process is from the file: only one is in a transaction,    *)
(* and what it has in memory is the file after the part of one book step   *)
(* that its command or sweep has done so far.                              *)
(***************************************************************************)
EXTENDS FleetStoreProofs

BP == INSTANCE LeaseBookProofs WITH book <- Committed

------------------------------------------------------------------------------
(* The inductive invariant *)

\* The lock is held from flock() to the end of the transaction, and only then.
LockInv == \A p \in Proc : pc[p] \in Holding <=> lock = p

\* Commands do not sweep and sweeps run no commands.
RoleInv ==
  \A p \in Proc :
    /\ p \in Cli => pc[p] \notin {"sweep", "down"}
    /\ p \notin Cli => pc[p] \notin {"boot", "teardown"}
    /\ p \notin Cli => req[p] = NoRequest

\* From fleet f to fleet g, by moment h, by one granted lease, one stranded VM, one lease
\* given back, or one sweep that has still to try the VMs of left.
Granted(f, g, r, h) ==
  \E j \in Job, ttl \in Ttl, t \in 0 .. h :
    /\ CanLease(f[r], j, ttl)
    /\ \/ g = [f EXCEPT ![r] = Lease(f[r], j, ttl, t)]
       \/ g = [f EXCEPT ![r] = AttachVm(Lease(f[r], j, ttl, t), VmNameFor[r][j])]

Stranded(f, g, r) ==
  \E j \in Job :
    /\ \E ttl \in Ttl : CanLease(f[r], j, ttl)
    /\ g = [f EXCEPT ![r] = StrandVm(f[r], VmNameFor[r][j])]

Finished(f, g, r) ==
  /\ CanRelease(f[r], f[r].job)
  /\ \/ g = [f EXCEPT ![r] = DetachVm(Release(f[r]))]
     \/ f[r].vm # NoVm /\ g = [f EXCEPT ![r] = Quarantine(f[r])]

Reaped(f, t) == [r \in Runner |-> ReapOne(f[r], t)]

Swept(f, g, left, h) ==
  \E t \in 0 .. h, gone \in SUBSET Runner :
    /\ \A r \in gone : Stuck(Reaped(f, t)[r])
    /\ gone \cap left = {}
    /\ \A r \in left : Stuck(Reaped(f, t)[r])
    /\ g = [r \in Runner |-> IF r \in gone THEN DetachVm(Reaped(f, t)[r]) ELSE Reaped(f, t)[r]]

Saving == {"save", "write", "replace"}

\* What a lease command is about to save.
Outcome(c) ==
  \/ req[c] \in Acquires /\ Granted(Committed, mem[c], target[c], now)
  \/ said[c] = "failure" /\ mem[c] = Committed
  \/ said[c] = "failure" /\ req[c] \in Acquires /\ Stranded(Committed, mem[c], target[c])
  \/ /\ req[c] \in Releases /\ req[c].runner = target[c]
     /\ CanRelease(Committed[target[c]], req[c].job)
     /\ Finished(Committed, mem[c], target[c])

Pend(p) ==
  /\ pc[p] = "loaded" => mem[p] = Committed
  /\ pc[p] = "boot" =>
       LET r == target[p]
       IN  /\ CanLease(Committed[r], req[p].job, req[p].ttl)
           /\ \E t \in 0 .. now :
                mem[p] = [Committed EXCEPT ![r] = Lease(Committed[r], req[p].job, req[p].ttl, t)]
  /\ pc[p] = "teardown" =>
       LET r == target[p]
       IN  /\ req[p] \in Releases /\ req[p].runner = r
           /\ CanRelease(Committed[r], req[p].job)
           /\ Committed[r].vm # NoVm
           /\ mem[p] = [Committed EXCEPT ![r] = Release(Committed[r])]
  /\ pc[p] = "sweep" => Swept(Committed, mem[p], todo[p], now)
  /\ pc[p] \in Saving => IF p \in Cli THEN target[p] \in Runner /\ Outcome(p)
                                      ELSE Swept(Committed, mem[p], {}, now)

\* An acquire that is about to exit 0 has its lease in the file, uncounted.
GrantInv ==
  /\ \A r \in Runner : grants[r] <= 1 /\ (grants[r] > 0 => Committed[r].state # "ready")
  /\ \A c \in Cli : pc[c] = "exit" /\ said[c] = "success" /\ req[c] \in Acquires =>
       /\ target[c] \in Runner
       /\ grants[target[c]] = 0
       /\ Committed[target[c]].state # "ready"

IInv ==
  /\ TInv /\ LockInv /\ RoleInv
  /\ \A p \in Proc : Pend(p)
  /\ \A r \in Runner : Coherent(Committed[r])
  /\ GrantInv

------------------------------------------------------------------------------
(* The lock *)

\* Every step of some process is one of these.
StepOf(p) ==
  \/ p \in Cli /\ (Invoke(p) \/ CliStep(p))
  \/ p \in Reaper /\ (StartSweep(p) \/ ReaperStep(p) \/ Restart(p))
  \/ Flock(p) \/ Transact(p) \/ Kill(p)

LEMMA NextSteps == Next => Tick \/ \E p \in Proc : StepOf(p)
  BY DEF Next, StepOf, Proc

\* Only the holder of the lock can be inside a transaction, and each role
\* keeps to its own steps.
LEMMA LockStep ==
  ASSUME TInv, LockInv, RoleInv, NEW p \in Proc, StepOf(p)
  PROVE  LockInv' /\ RoleInv'
<1> USE StoreAssumption DEF TInv, TypeOK, LockInv, RoleInv, Goto, local, Holding
<1>1. CASE p \in Cli /\ Invoke(p)
  BY <1>1 DEF Invoke
<1>2. CASE AcquireRefused(p) \/ LeaseRunner(p)
  BY <1>2 DEF AcquireRefused, LeaseRunner, AtAcquire
<1>3. CASE BootVm(p) \/ TeardownVm(p)
  <2>1. /\ pc[p] \in {"boot", "teardown"}
        /\ pc' = [pc EXCEPT ![p] = "save"] /\ lock' = lock /\ req' = req
    BY <1>3, Zenon DEF BootVm, TeardownVm, Settle
  <2> QED
    BY <2>1
<1>4. CASE ReleaseRefused(p) \/ ReleaseRunner(p)
  BY <1>4 DEF ReleaseRefused, ReleaseRunner, AtRelease
<1>5. CASE p \in Reaper /\ (StartSweep(p) \/ Restart(p))
  BY <1>5 DEF StartSweep, Restart, Proc
<1>6. CASE p \in Reaper /\ (ReaperFails(p) \/ SweepEnds(p))
  BY <1>6 DEF ReaperFails, SweepEnds, Proc
<1>7. CASE p \in Reaper /\ (Reap(p) \/ SweepVm(p))
  <2>1. /\ pc[p] \in {"loaded", "sweep"}
        /\ pc' = [pc EXCEPT ![p] = "sweep"] /\ lock' = lock /\ req' = req
    <3>1. CASE Reap(p)
      BY <3>1 DEF Reap
    <3>2. CASE SweepVm(p)
      BY <3>2 DEF SweepVm
    <3> QED
      BY <1>7, <3>1, <3>2
  <2> QED
    BY <1>7, <2>1 DEF Proc
<1>8. CASE Flock(p) \/ Load(p) \/ LoadFails(p)
  BY <1>8 DEF Flock, LockFree, Load, LoadFails
<1>9. CASE VmOpRaises(p) \/ SaveFails(p)
  BY <1>9 DEF VmOpRaises, SaveFails
<1>10. CASE CreateTemp(p) \/ WriteTemp(p) \/ Replace(p)
  BY <1>10 DEF CreateTemp, WriteTemp, Written, Replace
<1>11. ASSUME NEW l \in {"idle", "down"}, Leave(p, l), p \in Cli => l = "idle"
       PROVE  LockInv' /\ RoleInv'
  BY <1>11 DEF Leave, Unlocked
<1>12. CASE p \in Cli /\ Exit(p)
  BY <1>11, <1>12 DEF Exit
<1>13. CASE p \in Reaper /\ EndSweep(p)
  BY <1>11, <1>13 DEF EndSweep
<1>14. CASE Kill(p)
  BY <1>11, <1>14 DEF Kill
<1> QED
  BY <1>1, <1>2, <1>3, <1>4, <1>5, <1>6, <1>7, <1>8, <1>9, <1>10, <1>12, <1>13, <1>14
     DEF StepOf, CliStep, ReaperStep, Transact

\* No other process touches what p keeps, nor the file while p holds the lock.
Same(p) ==
  /\ pc'[p] = pc[p] /\ req'[p] = req[p] /\ mem'[p] = mem[p] /\ target'[p] = target[p]
  /\ todo'[p] = todo[p] /\ said'[p] = said[p]

LEMMA OthersKeep ==
  ASSUME TInv, LockInv, NEW p \in Proc, NEW q \in Proc, p # q, StepOf(q)
  PROVE  Same(p) /\ now' = now /\ (pc[p] \in Holding => file' = file)
<1> USE DEF TInv, TypeOK, Goto, local, Same
<1>1. CASE Invoke(q) \/ StartSweep(q) \/ Restart(q) \/ Flock(q) \/ Load(q) \/ LoadFails(q)
  BY <1>1 DEF Invoke, StartSweep, Restart, Flock, LockFree, Load, LoadFails
<1>2. CASE AcquireRefused(q) \/ LeaseRunner(q)
  BY <1>2 DEF AcquireRefused, LeaseRunner
<1>3. ASSUME NEW n, NEW s, Settle(q, n, s)
      PROVE  Same(p) /\ now' = now /\ (pc[p] \in Holding => file' = file)
  BY <1>3 DEF Settle
<1>4. CASE BootVm(q) \/ TeardownVm(q)
  BY <1>3, <1>4 DEF BootVm, TeardownVm
<1>5. CASE ReleaseRefused(q) \/ ReleaseRunner(q)
  BY <1>5 DEF ReleaseRefused, ReleaseRunner
<1>6. CASE ReaperFails(q) \/ SweepEnds(q) \/ VmOpRaises(q) \/ SaveFails(q)
  BY <1>6 DEF ReaperFails, SweepEnds, VmOpRaises, SaveFails
<1>7. CASE Reap(q)
  BY <1>7 DEF Reap
<1>8. CASE SweepVm(q)
  BY <1>8 DEF SweepVm
<1>9. CASE CreateTemp(q) \/ WriteTemp(q)
  BY <1>9 DEF CreateTemp, WriteTemp, Written
<1>10. CASE Replace(q)
  BY <1>10 DEF Replace, LockInv, Holding
<1>11. ASSUME NEW l, Leave(q, l), UNCHANGED <<file, now>>
       PROVE  Same(p) /\ now' = now /\ (pc[p] \in Holding => file' = file)
  BY <1>11 DEF Leave, Unlocked
<1>12. CASE Exit(q) \/ EndSweep(q) \/ Kill(q)
  BY <1>11, <1>12 DEF Exit, EndSweep, Kill
<1> QED
  BY <1>1, <1>2, <1>4, <1>5, <1>6, <1>7, <1>8, <1>9, <1>10, <1>12
     DEF StepOf, CliStep, ReaperStep, Transact

------------------------------------------------------------------------------
(* What a process in a transaction is about to save *)

InTx == {"loaded", "boot", "teardown", "sweep"} \cup Saving

\* Where p is in no transaction nothing is pending.
LEMMA NothingPends == ASSUME NEW p, pc[p] \notin InTx PROVE Pend(p)
  BY DEF Pend, InTx, Saving

\* A coherent ready record is what an aborted lease leaves of it, and a
\* stranded lease is a stranded runner.
LEMMA BootOutcomes ==
  ASSUME NEW r \in Record, Coherent(r), NEW j \in Job, NEW ttl \in Nat, NEW t \in Nat,
         CanLease(r, j, ttl), NEW name \in VmName
  PROVE  /\ AbortLease(Lease(r, j, ttl, t)) = r
         /\ StrandVm(Lease(r, j, ttl, t), name) = StrandVm(r, name)
<1>1. AbortLease(Lease(r, j, ttl, t)) = r
  <2>1. r.state = "ready" /\ r.job = NoJob /\ r.expires = NoExpiry
    BY DEF CanLease, Coherent
  <2> QED
    BY <2>1 DEF AbortLease, Lease, Record
<1>2. StrandVm(Lease(r, j, ttl, t), name) = StrandVm(r, name)
  BY DEF StrandVm, Quarantine, Lease, Record
<1> QED
  BY <1>1, <1>2

\* A released record without a VM has nothing to detach, and quarantining a
\* released record is quarantining the record.
LEMMA ReleaseOutcomes ==
  ASSUME NEW r \in Record, Coherent(r)
  PROVE  /\ r.vm = NoVm => DetachVm(Release(r)) = Release(r)
         /\ Quarantine(Release(r)) = Quarantine(r)
<1>1. r.vm = NoVm => DetachVm(Release(r)) = Release(r)
  <2> SUFFICES ASSUME r.vm = NoVm PROVE DetachVm(Release(r)) = Release(r)
    OBVIOUS
  <2>1. r.ip = FALSE
    BY Zenon DEF Coherent, Record
  <2> QED
    BY <2>1 DEF DetachVm, Release, Record
<1>2. Quarantine(Release(r)) = Quarantine(r)
  BY DEF Quarantine, Release, Record
<1> QED
  BY <1>1, <1>2

\* Moments and lease lengths are natural numbers.
LEMMA TimesTyped == /\ \A ttl \in Ttl : ttl \in Nat /\ ttl > 0
                    /\ TypeOK => now \in Nat /\ \A t \in 0 .. now : t \in Nat
<1>1. Ttl \subseteq Nat \ {0} /\ MaxTime \in Nat
  BY StoreAssumption
<1> QED
  BY <1>1 DEF TypeOK

\* A load brings the file into memory and leasing changes one record of it.
LEMMA PendLease ==
  ASSUME IInv, NEW p \in Proc, p \in Cli, LeaseRunner(p)
  PROVE  Pend(p)'
<1> DEFINE r == Chosen(req[p], mem[p])
           q == req[p]
           n == Lease(Committed[r], q.job, q.ttl, now)
<1>1. /\ pc[p] = "loaded" /\ mem[p] = Committed /\ q \in Acquires
      /\ r \in Runner /\ q.job \in Job /\ q.ttl \in Ttl /\ q.tart \in BOOLEAN
      /\ CanLease(Committed[r], q.job, q.ttl)
  BY AdmissibleTyped, StoreAssumption
     DEF LeaseRunner, AtAcquire, IInv, Pend, IsAcquire
<1>2. /\ target'[p] = r /\ req' = req /\ file' = file /\ now' = now
      /\ mem'[p] = [Committed EXCEPT ![r] = n]
      /\ \/ pc'[p] = "boot"
         \/ pc'[p] = "save"
  <2>1. /\ mem' = [mem EXCEPT ![p] = [mem[p] EXCEPT ![r] = Lease(mem[p][r], q.job, q.ttl, now)]]
        /\ target' = [target EXCEPT ![p] = r]
        /\ pc' = [pc EXCEPT ![p] = "boot"] \/ pc' = [pc EXCEPT ![p] = "save"]
        /\ UNCHANGED <<file, now, req>>
    BY DEF LeaseRunner, Goto
  <2> QED
    BY <1>1, <2>1 DEF IInv, TInv, TypeOK
<1>3. Committed' = Committed
  BY <1>2 DEF Committed
<1>4. now \in 0 .. now
  BY StoreAssumption DEF IInv, TInv, TypeOK
<1> HIDE DEF r, n, q
<1>5. Granted(Committed, mem'[p], r, now)
  BY <1>1, <1>2, <1>4 DEF Granted, n
<1>6. CASE pc'[p] = "boot"
  BY <1>1, <1>2, <1>3, <1>4, <1>6 DEF Pend, Saving, n, q
<1>7. CASE pc'[p] = "save"
  <2>1. Granted(Committed, mem[p], target[p], now)'
    BY <1>2, <1>3, <1>5
  <2>2. Outcome(p)'
    BY <1>1, <1>2, <2>1 DEF Outcome, q
  <2> QED
    BY <1>1, <1>2, <1>7, <2>2 DEF Pend, Saving
<1> QED
  BY <1>2, <1>6, <1>7

\* A boot ends in a lease with its VM, in no lease, or in a stranded runner.
LEMMA PendBoot ==
  ASSUME IInv, NEW p \in Proc, p \in Cli, BootVm(p)
  PROVE  Pend(p)'
<1> DEFINE r == target[p]
           j == req[p].job
           ttl == req[p].ttl
           name == VmNameFor[r][j]
<1>1. /\ pc[p] = "boot" /\ r \in Runner /\ req[p] \in Acquires /\ j \in Job /\ ttl \in Ttl
      /\ CanLease(Committed[r], j, ttl) /\ name \in VmName
  <2>1. pc[p] = "boot"
    BY DEF BootVm
  <2>2. r \in Runner /\ req[p] \in Acquires /\ j \in Job
    BY <2>1 DEF IInv, TInv, Shape
  <2>3. ttl \in Ttl
    BY <2>2, StoreAssumption DEF IsAcquire
  <2>4. CanLease(Committed[r], j, ttl)
    BY <2>1 DEF IInv, Pend
  <2>5. name \in VmName
    BY <2>2, StoreAssumption
  <2> QED
    BY <2>1, <2>2, <2>3, <2>4, <2>5
<1>2. PICK t \in 0 .. now : mem[p] = [Committed EXCEPT ![r] = Lease(Committed[r], j, ttl, t)]
  BY <1>1 DEF IInv, Pend
<1>3. Committed \in Fleet /\ Committed[r] \in Record /\ Coherent(Committed[r])
      /\ t \in Nat /\ ttl \in Nat
  <2>1. Committed \in Fleet
    BY LoadedTyped DEF IInv, TInv
  <2>2. Committed[r] \in Record /\ Coherent(Committed[r])
    BY <1>1, <2>1 DEF IInv, Fleet
  <2>3. ttl \in Nat /\ t \in Nat
    BY <1>1, TimesTyped DEF IInv, TInv
  <2> QED
    BY <2>1, <2>2, <2>3
<1> DEFINE n == Lease(Committed[r], j, ttl, t)
<1>4. mem[p][r] = n
  BY <1>1, <1>2, <1>3 DEF Fleet
<1>5. /\ AbortLease(n) = Committed[r]
      /\ StrandVm(n, name) = StrandVm(Committed[r], name)
  BY <1>1, <1>3, BootOutcomes
<1>6. \/ Settle(p, AttachVm(n, name), "success")
      \/ Settle(p, AbortLease(n), "failure")
      \/ Settle(p, StrandVm(n, name), "failure")
  BY <1>4 DEF BootVm
<1> HIDE DEF n, j, ttl, name, r
<1>7. ASSUME NEW m, NEW s, Settle(p, m, s)
      PROVE  /\ pc'[p] = "save" /\ said'[p] = s /\ target'[p] = r /\ req' = req
             /\ Committed' = Committed /\ now' = now
             /\ mem'[p] = [Committed EXCEPT ![r] = m]
  <2>1. mem' = [mem EXCEPT ![p] = [mem[p] EXCEPT ![r] = m]]
    BY <1>7 DEF Settle, r
  <2>2. mem'[p] = [Committed EXCEPT ![r] = m]
    BY <1>1, <1>2, <1>3, <2>1 DEF IInv, TInv, TypeOK, Fleet
  <2> QED
    BY <1>7, <2>2 DEF Settle, Goto, Committed, IInv, TInv, TypeOK, r
<1>8. CASE Settle(p, AttachVm(n, name), "success")
  <2>1. Granted(Committed, mem'[p], r, now)
    BY <1>1, <1>2, <1>7, <1>8 DEF Granted, n, name
  <2>2. Granted(Committed, mem[p], target[p], now)'
    BY <1>7, <1>8, <2>1
  <2> QED
    BY <1>1, <1>7, <1>8, <2>2 DEF Pend, Saving, Outcome
<1>9. CASE Settle(p, AbortLease(n), "failure")
  <2>1. mem'[p] = Committed
    BY <1>1, <1>3, <1>5, <1>7, <1>9 DEF Fleet
  <2> QED
    BY <1>1, <1>7, <1>9, <2>1 DEF Pend, Saving, Outcome
<1>10. CASE Settle(p, StrandVm(n, name), "failure")
  <2>1. Stranded(Committed, mem'[p], r)
    BY <1>1, <1>5, <1>7, <1>10 DEF Stranded, name
  <2>2. Stranded(Committed, mem[p], target[p])'
    BY <1>7, <1>10, <2>1
  <2> QED
    BY <1>1, <1>7, <1>10, <2>2 DEF Pend, Saving, Outcome
<1> QED
  BY <1>6, <1>8, <1>9, <1>10

\* A release changes the record of its runner, which its job holds.
LEMMA PendRelease ==
  ASSUME IInv, NEW p \in Proc, p \in Cli, ReleaseRunner(p)
  PROVE  Pend(p)'
<1> DEFINE r == req[p].runner
<1>1. /\ pc[p] = "loaded" /\ req[p] \in Releases /\ r \in Runner
      /\ mem[p] = Committed /\ CanRelease(Committed[r], req[p].job)
  BY DEF ReleaseRunner, AtRelease, Releasable, IInv, Pend
<1>2. Committed \in Fleet /\ Committed[r] \in Record /\ Coherent(Committed[r])
  BY <1>1, LoadedTyped DEF IInv, TInv, Fleet
<1>3. mem' = [mem EXCEPT ![p] = [mem[p] EXCEPT ![r] = Release(mem[p][r])]]
  BY DEF ReleaseRunner
<1>4. /\ target'[p] = r /\ req' = req /\ file' = file
      /\ mem'[p] = [Committed EXCEPT ![r] = Release(Committed[r])]
  BY <1>1, <1>3 DEF ReleaseRunner, IInv, TInv, TypeOK
<1>5. Committed' = Committed
  BY <1>4 DEF Committed
<1>6. \/ Committed[r].vm # NoVm /\ pc'[p] = "teardown"
      \/ Committed[r].vm = NoVm /\ pc'[p] = "save"
  BY <1>1 DEF ReleaseRunner, Goto, IInv, TInv, TypeOK
<1> HIDE DEF r
<1>7. CASE Committed[r].vm # NoVm /\ pc'[p] = "teardown"
  BY <1>1, <1>4, <1>5, <1>7 DEF Pend, Saving, r
<1>8. CASE Committed[r].vm = NoVm /\ pc'[p] = "save"
  <2>1. mem'[p] = [Committed EXCEPT ![r] = DetachVm(Release(Committed[r]))]
    BY <1>2, <1>4, <1>8, ReleaseOutcomes
  <2>2. Finished(Committed, mem'[p], r)
    BY <1>1, <2>1 DEF Finished, CanRelease
  <2>3. Finished(Committed, mem[p], target[p])'
    BY <1>4, <1>5, <2>2
  <2>4. Outcome(p)'
    BY <1>1, <1>4, <1>5, <2>3 DEF Outcome, r
  <2> QED
    BY <1>1, <1>4, <1>8, <2>4 DEF Pend, Saving
<1> QED
  BY <1>6, <1>7, <1>8

\* A teardown ends in a runner without its VM or in a quarantined one with it.
LEMMA PendTeardown ==
  ASSUME IInv, NEW p \in Proc, p \in Cli, TeardownVm(p)
  PROVE  Pend(p)'
<1> DEFINE r == target[p]
           n == Release(Committed[r])
<1>1. /\ pc[p] = "teardown" /\ r \in Runner /\ req[p] \in Releases /\ req[p].runner = r
      /\ CanRelease(Committed[r], req[p].job) /\ Committed[r].vm # NoVm
      /\ mem[p] = [Committed EXCEPT ![r] = n]
  BY DEF TeardownVm, IInv, TInv, Shape, Pend
<1>2. Committed \in Fleet /\ Committed[r] \in Record /\ Coherent(Committed[r])
  BY <1>1, LoadedTyped DEF IInv, TInv, Fleet
<1>3. mem[p][r] = n
  BY <1>1, <1>2 DEF Fleet
<1>4. Quarantine(n) = Quarantine(Committed[r])
  BY <1>2, ReleaseOutcomes
<1>5. Settle(p, DetachVm(n), "success") \/ Settle(p, Quarantine(n), "failure")
  BY <1>3 DEF TeardownVm
<1> HIDE DEF n, r
<1>6. ASSUME NEW m, NEW s, Settle(p, m, s)
      PROVE  /\ pc'[p] = "save" /\ target'[p] = r /\ req' = req /\ Committed' = Committed
             /\ mem'[p] = [Committed EXCEPT ![r] = m]
  <2>1. mem' = [mem EXCEPT ![p] = [mem[p] EXCEPT ![r] = m]]
    BY <1>6 DEF Settle, r
  <2>2. mem'[p] = [Committed EXCEPT ![r] = m]
    BY <1>1, <1>2, <2>1 DEF IInv, TInv, TypeOK, Fleet
  <2> QED
    BY <1>6, <2>2 DEF Settle, Goto, Committed, IInv, TInv, TypeOK, r
<1>7. ASSUME NEW m, NEW s, Settle(p, m, s), Finished(Committed, mem'[p], r)
      PROVE  Pend(p)'
  <2>1. Finished(Committed, mem[p], target[p])'
    BY <1>6, <1>7
  <2>2. Outcome(p)'
    BY <1>1, <1>6, <1>7, <2>1 DEF Outcome
  <2> QED
    BY <1>1, <1>6, <1>7, <2>2 DEF Pend, Saving
<1>8. CASE Settle(p, DetachVm(n), "success")
  <2>1. Finished(Committed, mem'[p], r)
    BY <1>1, <1>6, <1>8 DEF Finished, CanRelease, n
  <2> QED
    BY <1>7, <1>8, <2>1
<1>9. CASE Settle(p, Quarantine(n), "failure")
  <2>1. Finished(Committed, mem'[p], r)
    BY <1>1, <1>4, <1>6, <1>9 DEF Finished, CanRelease
  <2> QED
    BY <1>7, <1>9, <2>1
<1> QED
  BY <1>5, <1>8, <1>9

\* After the reaper has judged every runner no VM is gone yet.
LEMMA PendReap ==
  ASSUME IInv, NEW p \in Proc, Reap(p)
  PROVE  Pend(p)'
<1> DEFINE f == Committed
           left == {r \in Runner : Stuck(Reaped(f, now)[r])}
<1>1. pc[p] = "loaded" /\ mem[p] = f
  BY DEF Reap, IInv, Pend
<1>2. /\ mem' = [mem EXCEPT ![p] = Reaped(mem[p], now)]
      /\ \/ todo' = [todo EXCEPT ![p] = {r \in Runner : Stuck(Reaped(mem[p], now)[r])}]
         \/ todo' = [todo EXCEPT ![p] = {}]
      /\ pc' = [pc EXCEPT ![p] = "sweep"]
      /\ file' = file /\ now' = now
  BY DEF Reap, Reaped, Goto
<1>3. /\ mem'[p] = Reaped(f, now) /\ pc'[p] = "sweep"
      /\ Committed' = f /\ now' = now
      /\ todo'[p] \subseteq left
  BY <1>1, <1>2 DEF IInv, TInv, TypeOK, Committed
<1>4. now \in 0 .. now
  BY TimesTyped DEF IInv, TInv
<1> HIDE DEF f
<1> DEFINE gone == {}
<1>5. /\ gone \in SUBSET Runner /\ gone \cap todo'[p] = {}
      /\ \A r \in gone : Stuck(Reaped(f, now)[r])
      /\ \A r \in todo'[p] : Stuck(Reaped(f, now)[r])
      /\ mem'[p] = [r \in Runner |-> IF r \in gone THEN DetachVm(Reaped(f, now)[r])
                                                  ELSE Reaped(f, now)[r]]
  BY <1>3 DEF Reaped
<1> HIDE DEF gone
<1>6. Swept(f, mem'[p], todo'[p], now)
  BY <1>4, <1>5, Zenon DEF Swept
<1>7. Swept(Committed, mem[p], todo[p], now)'
  BY <1>3, <1>6 DEF f
<1> QED
  BY <1>3, <1>7 DEF Pend, Saving

\* A teardown moves at most one more runner to those whose VM is gone.
LEMMA PendSweepVm ==
  ASSUME IInv, NEW p \in Proc, SweepVm(p)
  PROVE  Pend(p)'
<1> DEFINE f == Committed
<1>1. pc[p] = "sweep" /\ Swept(f, mem[p], todo[p], now) /\ todo[p] \subseteq Runner
  BY DEF SweepVm, IInv, Pend, TInv, TypeOK
<1>2. PICK r \in todo[p] :
        /\ todo' = [todo EXCEPT ![p] = todo[p] \ {r}]
        /\ \/ mem' = [mem EXCEPT ![p] = [mem[p] EXCEPT ![r] = DetachVm(mem[p][r])]]
           \/ mem' = mem
  BY DEF SweepVm
<1>3. /\ pc'[p] = "sweep" /\ Committed' = f /\ now' = now
      /\ todo'[p] = todo[p] \ {r}
      /\ \/ mem'[p] = [mem[p] EXCEPT ![r] = DetachVm(mem[p][r])]
         \/ mem'[p] = mem[p]
  BY <1>1, <1>2 DEF SweepVm, IInv, TInv, TypeOK, Committed
<1> HIDE DEF f
<1>4. PICK t \in 0 .. now, gone \in SUBSET Runner :
        /\ \A x \in gone : Stuck(Reaped(f, t)[x])
        /\ gone \cap todo[p] = {}
        /\ \A x \in todo[p] : Stuck(Reaped(f, t)[x])
        /\ mem[p] = [x \in Runner |-> IF x \in gone THEN DetachVm(Reaped(f, t)[x])
                                                   ELSE Reaped(f, t)[x]]
  BY <1>1, Zenon DEF Swept
<1>5. ASSUME mem'[p] = mem[p]
      PROVE  Swept(f, mem'[p], todo'[p], now)
  <2>1. gone \cap todo'[p] = {} /\ \A x \in todo'[p] : Stuck(Reaped(f, t)[x])
    BY <1>3, <1>4
  <2>2. mem'[p] = [x \in Runner |-> IF x \in gone THEN DetachVm(Reaped(f, t)[x])
                                                  ELSE Reaped(f, t)[x]]
    BY <1>4, <1>5
  <2> QED
    BY <1>4, <2>1, <2>2, Zenon DEF Swept
<1>6. ASSUME mem'[p] = [mem[p] EXCEPT ![r] = DetachVm(mem[p][r])]
      PROVE  Swept(f, mem'[p], todo'[p], now)
  <2> DEFINE more == gone \cup {r}
  <2>1. /\ more \in SUBSET Runner /\ more \cap todo'[p] = {}
        /\ \A x \in more : Stuck(Reaped(f, t)[x])
        /\ \A x \in todo'[p] : Stuck(Reaped(f, t)[x])
    BY <1>1, <1>3, <1>4
  <2>2. mem'[p] = [x \in Runner |-> IF x \in more THEN DetachVm(Reaped(f, t)[x])
                                                  ELSE Reaped(f, t)[x]]
    BY <1>1, <1>4, <1>6
  <2> HIDE DEF more
  <2> QED
    BY <2>1, <2>2, Zenon DEF Swept
<1>7. Swept(f, mem'[p], todo'[p], now)
  BY <1>3, <1>5, <1>6
<1>8. Swept(Committed, mem[p], todo[p], now)'
  BY <1>3, <1>7 DEF f
<1> QED
  BY <1>3, <1>8 DEF Pend, Saving

\* Whatever process p itself does next, what it has pending stays one step.
LEMMA PendOwn ==
  ASSUME IInv, NEW p \in Proc, StepOf(p)
  PROVE  Pend(p)'
<1> USE DEF IInv, TInv, TypeOK, Goto, local
<1>1. CASE \/ Invoke(p) \/ StartSweep(p) \/ Restart(p) \/ Flock(p)
           \/ AcquireRefused(p) \/ ReleaseRefused(p) \/ ReaperFails(p)
           \/ VmOpRaises(p) \/ SaveFails(p) \/ LoadFails(p) \/ Replace(p)
  <2>1. pc'[p] \notin InTx
    BY <1>1 DEF Invoke, StartSweep, Restart, Flock, LockFree, AcquireRefused, ReleaseRefused,
               ReaperFails, VmOpRaises, SaveFails, LoadFails, Replace, InTx, Saving
  <2> QED
    BY <2>1 DEF Pend, InTx, Saving
<1>2. CASE Exit(p) \/ EndSweep(p) \/ Kill(p)
  <2>1. \E l \in {"idle", "down"} : Leave(p, l)
    BY <1>2, Zenon DEF Exit, EndSweep, Kill
  <2>2. pc'[p] \notin InTx
    BY <2>1 DEF Leave, Unlocked, InTx, Saving
  <2> QED
    BY <2>2 DEF Pend, InTx, Saving
<1>3. CASE Load(p)
  <2>1. pc'[p] = "loaded" /\ mem'[p] = Committed /\ file' = file
    BY <1>3 DEF Load
  <2> QED
    BY <2>1 DEF Pend, Saving, Committed
<1>4. CASE p \in Cli /\ LeaseRunner(p)
  BY <1>4, PendLease
<1>5. CASE p \in Cli /\ BootVm(p)
  BY <1>5, PendBoot
<1>6. CASE p \in Cli /\ ReleaseRunner(p)
  BY <1>6, PendRelease
<1>7. CASE p \in Cli /\ TeardownVm(p)
  BY <1>7, PendTeardown
<1>8. CASE Reap(p)
  BY <1>8, PendReap
<1>9. CASE SweepVm(p)
  BY <1>9, PendSweepVm
<1>10. CASE SweepEnds(p) \/ CreateTemp(p) \/ WriteTemp(p)
  <2>1. /\ pc'[p] \in Saving
        /\ pc[p] \in Saving \/ (pc[p] = "sweep" /\ todo[p] = {})
        /\ UNCHANGED <<req, mem, target, said>> /\ Committed' = Committed /\ now' = now
    BY <1>10 DEF SweepEnds, CreateTemp, WriteTemp, Written, Saving, Committed
  <2>2. ASSUME p \in Cli PROVE target'[p] \in Runner /\ Outcome(p)'
    <3>1. pc[p] \in Saving
      BY <2>1, <2>2 DEF RoleInv
    <3>2. target[p] \in Runner /\ Outcome(p)
      BY <2>2, <3>1 DEF Pend
    <3>3. Outcome(p)'
      BY <2>1, <3>2 DEF Outcome
    <3> QED
      BY <2>1, <3>2, <3>3
  <2>3. ASSUME p \notin Cli PROVE Swept(Committed, mem[p], {}, now)'
    <3>1. Swept(Committed, mem[p], {}, now)
      BY <2>1, <2>3 DEF Pend, Saving
    <3> QED
      BY <2>1, <3>1
  <2> QED
    BY <2>1, <2>2, <2>3 DEF Pend, Saving
<1> QED
  BY <1>1, <1>2, <1>3, <1>4, <1>5, <1>6, <1>7, <1>8, <1>9, <1>10
     DEF StepOf, CliStep, ReaperStep, Transact

\* What is pending at one moment is pending at every later one.
LEMMA PendLater ==
  ASSUME IInv, NEW p \in Proc, Same(p), Committed' = Committed,
         now' \in Nat, now <= now'
  PROVE  Pend(p)'
<1>1. now \in Nat /\ \A t \in 0 .. now : t \in 0 .. now'
  BY TimesTyped DEF IInv, TInv
<1>2. ASSUME NEW f, NEW g, NEW r, Granted(f, g, r, now)
      PROVE  Granted(f, g, r, now')
  BY <1>1, <1>2, Zenon DEF Granted
<1>3. ASSUME NEW f, NEW g, NEW left, Swept(f, g, left, now)
      PROVE  Swept(f, g, left, now')
  BY <1>1, <1>3, Zenon DEF Swept
<1>4. Pend(p)
  BY DEF IInv
<1>5. pc'[p] = "boot" =>
        LET r == target'[p]
        IN  /\ CanLease(Committed'[r], req'[p].job, req'[p].ttl)
            /\ \E t \in 0 .. now' :
                 mem'[p] = [Committed' EXCEPT ![r] = Lease(Committed'[r], req'[p].job, req'[p].ttl, t)]
  BY <1>1, <1>4 DEF Pend, Same
<1>6. Outcome(p) => Outcome(p)'
  BY <1>2 DEF Outcome, Same
<1>7. \A left : Swept(Committed, mem[p], left, now) => Swept(Committed', mem'[p], left, now')
  BY <1>3 DEF Same
<1> QED
  BY <1>4, <1>5, <1>6, <1>7 DEF Pend, Same

------------------------------------------------------------------------------
(* Every step is a step of the lease book *)

\* Nothing but the rename at the end of a save changes the file.
LEMMA OnlyReplaceWrites ==
  ASSUME NEW p \in Proc, StepOf(p)
  PROVE  now' = now /\ (Replace(p) \/ file' = file)
<1>1. CASE BootVm(p) \/ TeardownVm(p)
  BY <1>1, Zenon DEF BootVm, TeardownVm, Settle
<1>2. CASE SweepVm(p) \/ Reap(p)
  BY <1>2, Zenon DEF SweepVm, Reap
<1>3. CASE p \in Cli /\ (Invoke(p) \/ CliStep(p)) /\ ~(BootVm(p) \/ TeardownVm(p))
  BY <1>3, Zenon DEF CliStep, Invoke, AcquireRefused, LeaseRunner, ReleaseRefused,
                     ReleaseRunner, Exit
<1>4. CASE /\ p \in Reaper /\ (StartSweep(p) \/ ReaperStep(p) \/ Restart(p))
           /\ ~(SweepVm(p) \/ Reap(p))
  BY <1>4, Zenon DEF ReaperStep, StartSweep, Restart, ReaperFails, SweepEnds, EndSweep
<1>5. CASE Flock(p) \/ Kill(p) \/ Load(p) \/ LoadFails(p) \/ VmOpRaises(p)
  BY <1>5, Zenon DEF Flock, LockFree, Kill, Load, LoadFails, VmOpRaises
<1>6. CASE CreateTemp(p) \/ WriteTemp(p) \/ SaveFails(p) \/ Replace(p)
  BY <1>6, Zenon DEF CreateTemp, WriteTemp, Written, SaveFails, Replace
<1> QED
  BY <1>1, <1>2, <1>3, <1>4, <1>5, <1>6, Zenon DEF StepOf, Transact

\* The rename makes the private copy the file.
LEMMA ReplaceCommits ==
  ASSUME IInv, NEW p \in Proc, Replace(p)
  PROVE  /\ pc[p] = "replace" /\ mem[p] \in Fleet
         /\ Committed' = mem[p] /\ now' = now
         /\ p \in Cli => target[p] \in Runner /\ Outcome(p)
         /\ p \notin Cli => Swept(Committed, mem[p], {}, now)
<1>1. pc[p] = "replace" /\ file' = temp[p] /\ now' = now
  BY DEF Replace
<1>2. temp[p] = mem[p] /\ mem[p] \in Fleet
  BY <1>1 DEF IInv, TInv, Shape, InTransaction, Holding
<1>3. Absent \notin Fleet
  BY StoreAssumption DEF Fleet
<1>4. Pend(p)
  BY DEF IInv
<1> QED
  BY <1>1, <1>2, <1>3, <1>4 DEF Committed, Loaded, Pend, Saving

\* A committed lease command is a step of the book, or changes nothing.
LEMMA OutcomeIsBookStep ==
  ASSUME IInv, NEW c \in Cli, target[c] \in Runner, Outcome(c),
         Committed' = mem[c], now' = now
  PROVE  BP!Next \/ UNCHANGED BP!vars
<1>1. CASE Granted(Committed, mem[c], target[c], now)
  <2>1. BP!Grant(target[c])
    BY <1>1, Zenon DEF Granted, BP!Grant, BP!CanLease, CanLease, BP!Lease, Lease,
                       BP!AttachVm, AttachVm
  <2> QED
    BY <2>1 DEF BP!Next
<1>2. CASE mem[c] = Committed
  BY <1>2 DEF BP!vars
<1>3. CASE Stranded(Committed, mem[c], target[c])
  <2>1. BP!Strand(target[c])
    BY <1>3, Zenon DEF Stranded, BP!Strand, BP!CanLease, CanLease, BP!StrandVm, StrandVm,
                       BP!Quarantine, Quarantine
  <2> QED
    BY <2>1 DEF BP!Next
<1>4. CASE Finished(Committed, mem[c], target[c])
  <2>1. BP!Finish(target[c])
    BY <1>4, Zenon DEF Finished, BP!Finish, BP!CanRelease, CanRelease, BP!DetachVm, DetachVm,
                       BP!Release, Release, BP!Quarantine, Quarantine
  <2> QED
    BY <2>1 DEF BP!Next
<1> QED
  BY <1>1, <1>2, <1>3, <1>4 DEF Outcome

\* A committed sweep is a sweep of the book.
LEMMA SweptIsBookStep ==
  ASSUME NEW g, Swept(Committed, g, {}, now), Committed' = g, now' = now
  PROVE  BP!Next
<1>1. PICK t \in 0 .. now, gone \in SUBSET Runner :
        /\ \A r \in gone : Stuck(Reaped(Committed, t)[r])
        /\ Committed' = [r \in Runner |-> IF r \in gone THEN DetachVm(Reaped(Committed, t)[r])
                                                       ELSE Reaped(Committed, t)[r]]
  BY Zenon DEF Swept
<1> DEFINE reaped == [r \in Runner |-> BP!ReapOne(Committed[r], t)]
<1>2. reaped = Reaped(Committed, t)
  BY Zenon DEF Reaped, BP!ReapOne, ReapOne, BP!Overdue, Overdue, BP!Quarantine, Quarantine
<1>3. /\ \A r \in gone : BP!Stuck(reaped[r])
      /\ Committed' = [r \in Runner |-> IF r \in gone THEN BP!DetachVm(reaped[r]) ELSE reaped[r]]
  <2> HIDE DEF reaped
  <2> QED
    BY <1>1, <1>2, Zenon DEF BP!Stuck, Stuck, BP!DetachVm, DetachVm
<1>4. BP!Sweep
  BY <1>3, Zenon DEF BP!Sweep
<1> QED
  BY <1>4 DEF BP!Next

LEMMA RefineStep == IInv /\ [Next]_vars => [BP!Next]_(BP!vars)
<1> SUFFICES ASSUME IInv, [Next]_vars PROVE BP!Next \/ UNCHANGED BP!vars
  BY Zenon
<1>1. ASSUME NEW p \in Proc, StepOf(p), file' = file
      PROVE  UNCHANGED BP!vars
  BY <1>1, OnlyReplaceWrites DEF BP!vars, Committed
<1>2. ASSUME NEW p \in Proc, Replace(p)
      PROVE  BP!Next \/ UNCHANGED BP!vars
  BY <1>2, ReplaceCommits, OutcomeIsBookStep, SweptIsBookStep
<1>3. CASE Tick
  <2>1. BP!Tick
    BY <1>3, Zenon DEF Tick, BP!Tick, Committed
  <2> QED
    BY <2>1 DEF BP!Next
<1>4. CASE UNCHANGED vars
  BY <1>4 DEF vars, BP!vars, Committed
<1> QED
  BY <1>1, <1>2, <1>3, <1>4, NextSteps, OnlyReplaceWrites

------------------------------------------------------------------------------
(* The invariant is inductive *)

\* The invariant of the book holds of the file.
LEMMA BookIInv == IInv => BP!IInv
  BY LoadedTyped
     DEF IInv, TInv, TypeOK, BP!IInv, BP!TypeOK, BP!RecordsCoherent, Fleet,
         BP!Record, Record, BP!RunnerState, RunnerState, BP!Coherent, Coherent

\* The constants satisfy what the book assumes of them.
LEMMA BookConstants == LifecycleAssumption /\ BP!BookAssumption
  BY LifecycleAssumption, StoreAssumption DEF LifecycleAssumption, BP!BookAssumption

\* A step of the book leaves every record coherent and takes it forward.
LEMMA BookStepSound ==
  ASSUME IInv, [Next]_vars, NEW r \in Runner
  PROVE  Coherent(Committed'[r]) /\ Forward(Committed[r], Committed'[r])
<1>1. BP!Coherent(Committed'[r]) /\ BP!Forward(Committed[r], Committed'[r])
  <2>1. BP!IInv
    BY BookIInv
  <2>2. [BP!Next]_(BP!vars)
    BY RefineStep
  <2> QED
    BY <2>1, <2>2, BookConstants, BP!StepOnRecord
<1> QED
  BY <1>1 DEF BP!Coherent, Coherent, BP!Forward, Forward, BP!Stage, Stage

\* An acquire that is about to save success has leased a ready runner.
LEMMA SuccessIsGrant ==
  ASSUME IInv, NEW c \in Cli, Replace(c), said[c] = "success", req[c] \in Acquires
  PROVE  /\ target[c] \in Runner
         /\ Committed[target[c]].state = "ready"
         /\ Committed'[target[c]].state = "leased"
<1> DEFINE r == target[c]
<1>1. r \in Runner /\ Outcome(c) /\ Committed' = mem[c] /\ Committed \in Fleet
  BY ReplaceCommits, LoadedTyped DEF IInv, TInv, Proc
<1>2. req[c] \notin Releases
  BY StoreAssumption DEF IsAcquire, IsRelease
<1>3. Granted(Committed, mem[c], r, now)
  BY <1>1, <1>2 DEF Outcome
<1>4. PICK j \in Job, ttl \in Ttl, t \in 0 .. now :
        /\ CanLease(Committed[r], j, ttl)
        /\ \/ mem[c] = [Committed EXCEPT ![r] = Lease(Committed[r], j, ttl, t)]
           \/ mem[c] = [Committed EXCEPT ![r] = AttachVm(Lease(Committed[r], j, ttl, t), VmNameFor[r][j])]
  BY <1>3, Zenon DEF Granted
<1>5. Committed[r] \in Record
  BY <1>1 DEF Fleet
<1>6. mem[c][r] = Lease(Committed[r], j, ttl, t)
      \/ mem[c][r] = AttachVm(Lease(Committed[r], j, ttl, t), VmNameFor[r][j])
  BY <1>1, <1>4 DEF Fleet
<1>7. mem[c][r].state = "leased"
  BY <1>5, <1>6 DEF Lease, AttachVm, Record
<1> QED
  BY <1>1, <1>4, <1>7 DEF CanLease

\* The count of grants only changes as a command exits.
LEMMA OnlyExitGrants ==
  ASSUME NEW p \in Proc, StepOf(p)
  PROVE  (p \in Cli /\ Exit(p)) \/ grants' = grants
<1>1. CASE BootVm(p) \/ TeardownVm(p)
  BY <1>1, Zenon DEF BootVm, TeardownVm, Settle
<1>2. CASE SweepVm(p) \/ Reap(p) \/ StartSweep(p) \/ Restart(p) \/ ReaperFails(p)
           \/ SweepEnds(p) \/ EndSweep(p)
  BY <1>2, Zenon DEF SweepVm, Reap, StartSweep, Restart, ReaperFails, SweepEnds, EndSweep
<1>3. CASE Invoke(p) \/ AcquireRefused(p) \/ LeaseRunner(p) \/ ReleaseRefused(p) \/ ReleaseRunner(p)
  BY <1>3, Zenon DEF Invoke, AcquireRefused, LeaseRunner, ReleaseRefused, ReleaseRunner
<1>4. CASE Flock(p) \/ Kill(p) \/ Load(p) \/ LoadFails(p) \/ VmOpRaises(p)
  BY <1>4, Zenon DEF Flock, LockFree, Kill, Load, LoadFails, VmOpRaises
<1>5. CASE CreateTemp(p) \/ WriteTemp(p) \/ SaveFails(p) \/ Replace(p)
  BY <1>5, Zenon DEF CreateTemp, WriteTemp, Written, SaveFails, Replace
<1> QED
  BY <1>1, <1>2, <1>3, <1>4, <1>5, Zenon DEF StepOf, CliStep, ReaperStep, Transact

\* A process reaches the end of a transaction by the rename, and only by it.
LEMMA ExitPlace ==
  ASSUME TInv, NEW p \in Proc, StepOf(p), pc'[p] = "exit"
  PROVE  Replace(p)
<1> USE DEF TInv, TypeOK, Goto
<1>1. CASE \/ Invoke(p) \/ StartSweep(p) \/ Restart(p) \/ Flock(p) \/ Load(p) \/ LoadFails(p)
  BY <1>1 DEF Invoke, StartSweep, Restart, Flock, LockFree, Load, LoadFails
<1>2. CASE AcquireRefused(p) \/ LeaseRunner(p) \/ ReleaseRefused(p) \/ ReleaseRunner(p)
  BY <1>2 DEF AcquireRefused, LeaseRunner, ReleaseRefused, ReleaseRunner
<1>3. CASE BootVm(p) \/ TeardownVm(p)
  <2>1. pc' = [pc EXCEPT ![p] = "save"]
    BY <1>3, Zenon DEF BootVm, TeardownVm, Settle
  <2> QED
    BY <2>1
<1>4. CASE ReaperFails(p) \/ SweepEnds(p) \/ VmOpRaises(p) \/ SaveFails(p)
  BY <1>4 DEF ReaperFails, SweepEnds, VmOpRaises, SaveFails
<1>5. CASE Reap(p)
  BY <1>5 DEF Reap
<1>6. CASE SweepVm(p)
  BY <1>6 DEF SweepVm
<1>7. CASE CreateTemp(p) \/ WriteTemp(p)
  BY <1>7 DEF CreateTemp, WriteTemp, Written
<1>8. CASE Exit(p) \/ EndSweep(p) \/ Kill(p)
  <2>1. \E l \in {"idle", "down"} : pc' = [pc EXCEPT ![p] = l]
    BY <1>8, Zenon DEF Exit, EndSweep, Kill, Leave, Unlocked
  <2> QED
    BY <2>1
<1> QED
  BY <1>1, <1>2, <1>3, <1>4, <1>5, <1>6, <1>7, <1>8 DEF StepOf, CliStep, ReaperStep, Transact

\* Grants are counted once, and only when the lease is in the file.
LEMMA GrantStep ==
  ASSUME IInv, TInv', [Next]_vars
  PROVE  GrantInv'
<1>1. \A r \in Runner : Committed[r].state # "ready" => Committed'[r].state # "ready"
  <2> SUFFICES ASSUME NEW r \in Runner, Committed[r].state # "ready"
               PROVE  Committed'[r].state # "ready"
    OBVIOUS
  <2>1. Forward(Committed[r], Committed'[r])
    BY BookStepSound
  <2>2. Committed \in Fleet /\ Committed' \in Fleet
    <3>1. Committed \in Fleet /\ FreshFleet \in Fleet
      BY LoadedTyped DEF IInv, TInv
    <3>2. file' \in Fleet \cup {Absent}
      BY DEF TInv, TypeOK, NeverTorn
    <3> QED
      BY <3>1, <3>2 DEF Committed, Loaded
  <2>3. Committed[r].state \in RunnerState /\ Committed'[r].state \in RunnerState
    BY <2>2 DEF Fleet, Record
  <2> QED
    BY <2>1, <2>3 DEF Forward, Stage, RunnerState
<1>2. grants \in [Runner -> Nat]
  BY DEF IInv, TInv, TypeOK
<1>3. ASSUME NEW p \in Proc, StepOf(p), grants' = grants
      PROVE  GrantInv'
  <2>1. ASSUME NEW c \in Cli, pc'[c] = "exit", said'[c] = "success", req'[c] \in Acquires
        PROVE  /\ target'[c] \in Runner /\ grants'[target'[c]] = 0
               /\ Committed'[target'[c]].state # "ready"
    <3>1. c \in Proc
      BY DEF Proc
    <3>2. CASE p = c
      <4>1. Replace(c)
        BY <1>3, <2>1, <3>1, <3>2, ExitPlace DEF IInv
      <4>2. said' = said /\ req' = req /\ target' = target
        BY <4>1 DEF Replace
      <4>3. /\ target[c] \in Runner /\ Committed[target[c]].state = "ready"
            /\ Committed'[target[c]].state = "leased"
        BY <2>1, <4>1, <4>2, SuccessIsGrant
      <4>4. grants[target[c]] = 0
        BY <1>2, <4>3 DEF IInv, GrantInv
      <4> QED
        BY <1>3, <4>2, <4>3, <4>4
    <3>3. CASE p # c
      <4>1. Same(c)
        BY <1>3, <3>1, <3>3, OthersKeep DEF IInv
      <4>2. /\ target[c] \in Runner /\ grants[target[c]] = 0
            /\ Committed[target[c]].state # "ready"
        BY <2>1, <4>1 DEF Same, IInv, GrantInv
      <4> QED
        BY <1>1, <1>3, <4>1, <4>2 DEF Same
    <3> QED
      BY <3>2, <3>3
  <2> QED
    BY <1>1, <1>3, <2>1 DEF IInv, GrantInv
<1>4. ASSUME NEW p \in Cli, Exit(p)
      PROVE  GrantInv'
  <2> DEFINE granted == pc[p] = "exit" /\ req[p] \in Acquires /\ said[p] = "success"
  <2>1. /\ pc[p] \in Holding /\ p \in Proc /\ StepOf(p)
        /\ grants' = [r \in Runner |-> IF granted /\ r = target[p] THEN grants[r] + 1 ELSE grants[r]]
    BY <1>4 DEF Exit, Holding, Proc, StepOf, CliStep
  <2>2. granted => /\ target[p] \in Runner /\ grants[target[p]] = 0
                   /\ Committed[target[p]].state # "ready"
    BY DEF IInv, GrantInv
  <2>3. \A r \in Runner : grants[r] <= 1 /\ (grants[r] > 0 => Committed[r].state # "ready")
    BY DEF IInv, GrantInv
  <2> HIDE DEF granted
  <2>4. \A r \in Runner : grants'[r] <= 1 /\ (grants'[r] > 0 => Committed'[r].state # "ready")
    BY <1>1, <1>2, <2>1, <2>2, <2>3
  <2>5. ASSUME NEW c \in Cli, pc'[c] = "exit"
        PROVE  FALSE
    <3>1. c \in Proc
      BY DEF Proc
    <3>2. p # c
      BY <1>4, <2>1, <2>5 DEF Exit, Leave, Unlocked, Goto, IInv, TInv, TypeOK
    <3>3. pc[c] = "exit"
      BY <2>1, <2>5, <3>1, <3>2, OthersKeep DEF Same, IInv
    <3> QED
      BY <2>1, <3>1, <3>2, <3>3 DEF IInv, LockInv, Holding
  <2> QED
    BY <2>4, <2>5 DEF GrantInv
<1>5. CASE Tick \/ UNCHANGED vars
  BY <1>5 DEF Tick, vars, local, IInv, GrantInv, Committed
<1> QED
  BY <1>3, <1>4, <1>5, NextSteps, OnlyExitGrants

LEMMA IInvStep == IInv /\ [Next]_vars => IInv'
<1> SUFFICES ASSUME IInv, [Next]_vars PROVE IInv'
  OBVIOUS
<1>1. TInv'
  BY TypedStep DEF IInv
<1>2. CASE Tick \/ UNCHANGED vars
  <2>1. /\ Committed' = Committed
        /\ UNCHANGED <<lock, pc, req, mem, target, todo, said>>
        /\ now' = now + 1 \/ now' = now
    BY <1>2, Zenon DEF Tick, vars, local, Committed
  <2>2. now' \in Nat /\ now <= now'
    BY <2>1, TimesTyped DEF IInv, TInv
  <2>3. LockInv' /\ RoleInv'
    BY <2>1 DEF IInv, LockInv, RoleInv
  <2>4. ASSUME NEW p \in Proc PROVE Pend(p)'
    BY <2>1, <2>2, PendLater DEF Same
  <2> QED
    BY <1>1, <2>3, <2>4, GrantStep, BookStepSound DEF IInv
<1>3. ASSUME NEW p \in Proc, StepOf(p)
      PROVE  IInv'
  <2>1. LockInv' /\ RoleInv'
    BY <1>3, LockStep DEF IInv
  <2>2. ASSUME NEW x \in Proc PROVE Pend(x)'
    <3>1. CASE x = p
      BY <1>3, <3>1, PendOwn
    <3>2. CASE x # p /\ pc[x] \in Holding
      <4>1. Same(x) /\ now' = now /\ file' = file
        BY <1>3, <3>2, OthersKeep DEF IInv
      <4>2. now \in Nat
        BY TimesTyped DEF IInv, TInv
      <4> QED
        BY <4>1, <4>2, PendLater DEF Committed
    <3>3. CASE x # p /\ pc[x] \notin Holding
      <4>1. pc'[x] = pc[x]
        BY <1>3, <3>3, OthersKeep DEF IInv, Same
      <4> QED
        BY <3>3, <4>1 DEF Pend, Holding, Saving
    <3> QED
      BY <3>1, <3>2, <3>3
  <2> QED
    BY <1>1, <2>1, <2>2, GrantStep, BookStepSound DEF IInv
<1> QED
  BY <1>2, <1>3, NextSteps

LEMMA IInvInit == Init => IInv
<1> SUFFICES ASSUME Init PROVE IInv
  OBVIOUS
<1>1. TInv
  BY TypedInit
<1>2. LockInv /\ RoleInv
  BY StoreAssumption DEF Init, LockInv, RoleInv, Holding
<1>3. \A p \in Proc : Pend(p)
  BY DEF Init, Pend, Saving
<1>4. \A r \in Runner : Committed[r] = Fresh
  BY DEF Init, Committed, Loaded, FreshFleet
<1>5. GrantInv
  BY DEF Init, GrantInv, Proc
<1> QED
  BY <1>1, <1>2, <1>3, <1>4, <1>5, FreshCoherent DEF IInv

------------------------------------------------------------------------------
(* Theorems *)

THEOREM Invariance == Spec => []IInv
  BY IInvInit, IInvStep, PTL DEF Spec

\* No process ever saves a stale copy of a runner that is not its concern: in
\* every interleaving its copy agrees with the file on all the others.
THEOREM NoUpdateIsLost == Spec => []NoLostUpdate
<1>1. IInv => NoLostUpdate
  <2> SUFFICES ASSUME IInv, NEW p \in Proc, InTransaction(p),
                      NEW r \in Runner, r \notin Concerns(p)
               PROVE  mem[p][r] = Committed[r]
    BY DEF NoLostUpdate
  <2>1. Committed \in Fleet /\ Committed[r] \in Record /\ Pend(p)
    BY LoadedTyped DEF IInv, TInv, Fleet
  <2>2. p \in Cli => r # target[p]
    BY DEF Concerns
  <2>3. ASSUME p \notin Cli, NEW left, Swept(Committed, mem[p], left, now)
        PROVE  mem[p][r] = Committed[r]
    <3>1. ~Overdue(Committed[r], now) /\ ~Stuck(Committed[r])
      BY <2>3 DEF Concerns
    <3>2. PICK t \in 0 .. now, gone \in SUBSET Runner :
            /\ \A x \in gone : Stuck(Reaped(Committed, t)[x])
            /\ mem[p] = [x \in Runner |-> IF x \in gone THEN DetachVm(Reaped(Committed, t)[x])
                                                       ELSE Reaped(Committed, t)[x]]
      BY <2>3, Zenon DEF Swept
    <3>3. now \in Nat /\ t \in Nat /\ t <= now
      BY TimesTyped DEF IInv, TInv
    <3>4. ~Overdue(Committed[r], t)
      BY <2>1, <3>1, <3>3, LifecycleAssumption DEF Overdue, Record
    <3>5. Reaped(Committed, t)[r] = Committed[r]
      BY <3>4 DEF Reaped, ReapOne
    <3>6. r \notin gone
      BY <3>1, <3>2, <3>5
    <3> QED
      BY <3>2, <3>5, <3>6
  <2>4. ASSUME p \in Cli, Outcome(p)
        PROVE  mem[p][r] = Committed[r]
    BY <2>1, <2>2, <2>4, Zenon DEF Outcome, Granted, Stranded, Finished, Fleet
  <2>5. pc[p] \in {"loaded", "boot", "teardown", "sweep"} \cup Saving
    BY DEF InTransaction, Holding, Saving
  <2>6. pc[p] \in {"boot", "teardown"} => p \in Cli
    BY DEF IInv, RoleInv
  <2>7. pc[p] = "sweep" => p \notin Cli
    BY DEF IInv, RoleInv
  <2>8. CASE pc[p] \in {"boot", "teardown"}
    BY <2>1, <2>2, <2>6, <2>8 DEF Pend, Fleet
  <2> QED
    BY <2>1, <2>3, <2>4, <2>5, <2>7, <2>8 DEF Pend, Saving
<1> QED
  BY <1>1, Invariance, PTL

\* No crash leaves part of a fleet in the state file.
THEOREM FileIsNeverTorn == Spec => []NeverTorn
<1>1. IInv => NeverTorn
  BY StoreAssumption DEF IInv, TInv, TypeOK, NeverTorn, Fleet
<1> QED
  BY <1>1, Invariance, PTL

\* A runner whose acquire exited 0 is never on offer again ...
THEOREM GrantsAreKept == Spec => []GrantIsKept
<1>1. IInv => GrantIsKept
  BY DEF IInv, GrantInv, GrantIsKept
<1> QED
  BY <1>1, Invariance, PTL

\* ... and is never granted a second time.
THEOREM RunnersAreGrantedOnce == Spec => []OneGrantPerRunner
<1>1. IInv => OneGrantPerRunner
  BY DEF IInv, GrantInv, OneGrantPerRunner
<1> QED
  BY <1>1, Invariance, PTL

\* FleetStore names the book Book, its theorems come with BP: the same book.
LEMMA SameBook == [BP!Next]_(BP!vars) => [Book!Next]_(Book!vars)
<1> SUFFICES ASSUME BP!Next \/ UNCHANGED BP!vars PROVE Book!Next \/ UNCHANGED Book!vars
  BY Zenon
<1>1. ASSUME NEW r \in Runner, BP!Grant(r) PROVE Book!Grant(r)
  BY <1>1, Zenon DEF BP!Grant, Book!Grant, BP!CanLease, Book!CanLease, BP!Lease, Book!Lease,
                     BP!AttachVm, Book!AttachVm
<1>2. ASSUME NEW r \in Runner, BP!Strand(r) PROVE Book!Strand(r)
  BY <1>2, Zenon DEF BP!Strand, Book!Strand, BP!CanLease, Book!CanLease,
                     BP!StrandVm, Book!StrandVm, BP!Quarantine, Book!Quarantine
<1>3. ASSUME NEW r \in Runner, BP!Finish(r) PROVE Book!Finish(r)
  BY <1>3, Zenon DEF BP!Finish, Book!Finish, BP!CanRelease, Book!CanRelease,
                     BP!Release, Book!Release, BP!DetachVm, Book!DetachVm,
                     BP!Quarantine, Book!Quarantine
<1>4. ASSUME BP!Sweep PROVE Book!Sweep
  BY <1>4, Zenon DEF BP!Sweep, Book!Sweep, BP!ReapOne, Book!ReapOne, BP!Overdue, Book!Overdue,
                     BP!Quarantine, Book!Quarantine, BP!Stuck, Book!Stuck,
                     BP!DetachVm, Book!DetachVm
<1>5. ASSUME BP!Tick PROVE Book!Tick
  BY <1>5, Zenon DEF BP!Tick, Book!Tick
<1>6. UNCHANGED BP!vars => UNCHANGED Book!vars
  BY Zenon DEF BP!vars, Book!vars
<1> QED
  BY <1>1, <1>2, <1>3, <1>4, <1>5, <1>6, Zenon DEF BP!Next, Book!Next

\* The state file, with its lock, private copies, boots, sweeps and crashes,
\* implements the lease book: every command is all or nothing.
THEOREM FileImplementsBook == Spec => ImplementsBook
<1>1. Init => Book!Init
  BY DEF Init, Book!Init, Committed, Loaded, FreshFleet, Fresh, Book!Fresh
<1>2. IInv /\ [Next]_vars => [Book!Next]_(Book!vars)
  BY RefineStep, SameBook
<1> QED
  BY <1>1, <1>2, Invariance, PTL DEF Spec, Book!Spec, ImplementsBook

\* The fields of every record in the file agree, and runners are single-use.
THEOREM FileIsCoherent == Spec => [](\A r \in Runner : Coherent(Committed[r]))
<1>1. IInv => \A r \in Runner : Coherent(Committed[r])
  BY DEF IInv
<1> QED
  BY <1>1, Invariance, PTL

\* Only the release by its own job, or the deadline, ends a committed lease.
THEOREM LeasesAreKept == Spec => LeaseEndsByOwnerOrDeadline
<1> DEFINE Ends(r) ==
      Committed[r].state = "leased" /\ Loaded(file')[r].state # "leased" =>
        \/ Overdue(Committed[r], now)
        \/ \E c \in Cli : /\ pc[c] = "replace"
                         /\ req[c] \in Releases
                         /\ req[c].runner = r
                         /\ req[c].job = Committed[r].job
<1>1. IInv /\ [Next]_vars => \A r \in Runner : Ends(r)
  <2> SUFFICES ASSUME IInv, [Next]_vars, NEW r \in Runner,
                      Committed[r].state = "leased", Committed'[r].state # "leased"
               PROVE  \/ Overdue(Committed[r], now)
                      \/ \E c \in Cli : /\ pc[c] = "replace"
                                       /\ req[c] \in Releases
                                       /\ req[c].runner = r
                                       /\ req[c].job = Committed[r].job
    BY DEF Committed
  <2>1. Committed \in Fleet /\ Committed[r] \in Record
    BY LoadedTyped DEF IInv, TInv, Fleet
  <2>2. PICK p \in Proc : Replace(p)
    <3>1. file' # file
      BY DEF Committed
    <3> QED
      BY <3>1, NextSteps, OnlyReplaceWrites DEF Tick, vars
  <2>3. CASE p \in Cli
    <3>1. pc[p] = "replace" /\ target[p] \in Runner /\ Outcome(p) /\ Committed' = mem[p]
      BY <2>2, <2>3, ReplaceCommits
    <3>2. ~Granted(Committed, mem[p], target[p], now)
      <4> SUFFICES ASSUME Granted(Committed, mem[p], target[p], now) PROVE FALSE
        OBVIOUS
      <4>1. Committed[target[p]].state = "ready" /\ \E n : mem[p] = [Committed EXCEPT ![target[p]] = n]
        BY Zenon DEF Granted, CanLease
      <4> QED
        BY <2>1, <3>1, <4>1 DEF Fleet
    <3>3. ~Stranded(Committed, mem[p], target[p])
      <4> SUFFICES ASSUME Stranded(Committed, mem[p], target[p]) PROVE FALSE
        OBVIOUS
      <4>1. Committed[target[p]].state = "ready" /\ \E n : mem[p] = [Committed EXCEPT ![target[p]] = n]
        BY Zenon DEF Stranded, CanLease
      <4> QED
        BY <2>1, <3>1, <4>1 DEF Fleet
    <3>4. /\ req[p] \in Releases /\ req[p].runner = target[p]
          /\ CanRelease(Committed[target[p]], req[p].job)
          /\ Finished(Committed, mem[p], target[p])
      BY <3>1, <3>2, <3>3 DEF Outcome
    <3>5. \E n : mem[p] = [Committed EXCEPT ![target[p]] = n]
      BY <3>4, Zenon DEF Finished
    <3>6. r = target[p]
      BY <2>1, <3>1, <3>5 DEF Fleet
    <3> QED
      BY <2>3, <3>1, <3>4, <3>6 DEF CanRelease
  <2>4. CASE p \notin Cli
    <3>1. Swept(Committed, Committed', {}, now)
      BY <2>2, <2>4, ReplaceCommits
    <3>2. PICK t \in 0 .. now, gone \in SUBSET Runner :
            Committed' = [x \in Runner |-> IF x \in gone THEN DetachVm(Reaped(Committed, t)[x])
                                                      ELSE Reaped(Committed, t)[x]]
      BY <3>1, Zenon DEF Swept
    <3>3. now \in Nat /\ t \in Nat /\ t <= now
      BY TimesTyped DEF IInv, TInv
    <3>4. CASE Overdue(Committed[r], t)
      BY <2>1, <3>3, <3>4, LifecycleAssumption DEF Overdue, Record
    <3>5. CASE ~Overdue(Committed[r], t)
      <4>1. Reaped(Committed, t)[r] = Committed[r]
        BY <3>5 DEF Reaped, ReapOne
      <4>2. Committed'[r] = DetachVm(Committed[r]) \/ Committed'[r] = Committed[r]
        BY <3>2, <4>1
      <4> QED
        BY <2>1, <4>2 DEF DetachVm, Record
    <3> QED
      BY <3>4, <3>5
  <2> QED
    BY <2>3, <2>4
<1> QED
  BY <1>1, Invariance, PTL DEF Spec, LeaseEndsByOwnerOrDeadline
==============================================================================
