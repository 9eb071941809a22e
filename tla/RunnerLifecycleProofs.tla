------------------------- MODULE RunnerLifecycleProofs -------------------------
(***************************************************************************)
(* What the operations on one record preserve: its type, the agreement of  *)
(* its fields and the direction of its life.                               *)
(***************************************************************************)
EXTENDS RunnerLifecycle, TLAPS

\* Every operation of model.py and of the reaper makes a record of a record.
LEMMA RecordTyped ==
  ASSUME NEW r \in Record, NEW job \in Job, NEW name \in VmName,
         NEW ttl \in Nat, NEW now \in Nat
  PROVE  /\ Fresh \in Record
         /\ Lease(r, job, ttl, now) \in Record
         /\ AbortLease(r) \in Record
         /\ Release(r) \in Record
         /\ Quarantine(r) \in Record
         /\ AttachVm(r, name) \in Record
         /\ StrandVm(r, name) \in Record
         /\ DetachVm(r) \in Record
         /\ ReapOne(r, now) \in Record
<1> USE DEF Record, RunnerState
<1>1. Fresh \in Record
  BY DEF Fresh
<1>2. Lease(r, job, ttl, now) \in Record
  <2>1. now + ttl \in Nat
    OBVIOUS
  <2> QED
    BY <2>1 DEF Lease
<1>3. AbortLease(r) \in Record
  BY DEF AbortLease
<1>4. Release(r) \in Record
  BY DEF Release
<1>5. Quarantine(r) \in Record
  BY DEF Quarantine
<1>6. AttachVm(r, name) \in Record
  BY DEF AttachVm
<1>7. StrandVm(r, name) \in Record
  BY DEF StrandVm, Quarantine
<1>8. DetachVm(r) \in Record
  BY DEF DetachVm
<1>9. ReapOne(r, now) \in Record
  BY <1>5 DEF ReapOne
<1> QED
  BY <1>1, <1>2, <1>3, <1>4, <1>5, <1>6, <1>7, <1>8, <1>9

\* A fresh record has all its fields in agreement.
LEMMA FreshCoherent == Coherent(Fresh)
  BY DEF Coherent, Fresh

\* A lease, with or without a VM, keeps the fields in agreement.
LEMMA LeaseCoherent ==
  ASSUME NEW r \in Record, NEW job \in Job, NEW name \in VmName,
         NEW ttl \in Nat, NEW now \in Nat,
         Coherent(r), r.state = "ready"
  PROVE  /\ Coherent(Lease(r, job, ttl, now))
         /\ Coherent(AttachVm(Lease(r, job, ttl, now), name))
  BY LifecycleAssumption DEF Coherent, Record, RunnerState, Lease, AttachVm

\* Stranding a ready runner keeps the fields in agreement and goes forward.
LEMMA StrandSound ==
  ASSUME NEW r \in Record, NEW name \in VmName, Coherent(r), r.state = "ready"
  PROVE  Coherent(StrandVm(r, name)) /\ Forward(r, StrandVm(r, name))
<1>1. Coherent(StrandVm(r, name))
  BY LifecycleAssumption DEF Coherent, Record, RunnerState, StrandVm, Quarantine
<1>2. Forward(r, StrandVm(r, name))
  BY DEF Forward, Stage, Record, RunnerState, StrandVm, Quarantine
<1> QED
  BY <1>1, <1>2

\* The end of a lease keeps the fields in agreement, if its VM ends with it or
\* the runner leaves service.
LEMMA EndCoherent ==
  ASSUME NEW r \in Record, NEW now \in Nat, Coherent(r)
  PROVE  /\ Coherent(DetachVm(Release(r)))
         /\ Coherent(Quarantine(r))
         /\ Coherent(ReapOne(r, now))
         /\ Coherent(DetachVm(ReapOne(r, now)))
  BY DEF Coherent, Record, RunnerState, Release, Quarantine, DetachVm, ReapOne

\* Leasing a ready runner takes it forward.
LEMMA LeaseForward ==
  ASSUME NEW r \in Record, NEW job \in Job, NEW name \in VmName,
         NEW ttl \in Nat, NEW now \in Nat,
         r.state = "ready"
  PROVE  /\ Forward(r, Lease(r, job, ttl, now))
         /\ Forward(r, AttachVm(Lease(r, job, ttl, now), name))
  BY DEF Forward, Stage, Record, RunnerState, Lease, AttachVm

\* Ending a lease takes a leased runner forward; the reaper's rule and a
\* teardown take every runner forward.
LEMMA EndForward ==
  ASSUME NEW r \in Record, NEW now \in Nat
  PROVE  /\ r.state = "leased" => Forward(r, DetachVm(Release(r)))
         /\ r.state = "leased" => Forward(r, Quarantine(r))
         /\ Forward(r, ReapOne(r, now))
         /\ Forward(r, DetachVm(ReapOne(r, now)))
         /\ Forward(r, r)
  BY DEF Forward, Stage, Record, RunnerState, Release, Quarantine, DetachVm, ReapOne, Overdue

\* A released VM goes with its lease, and the reaper's rule keeps its name.
LEMMA VmKeptAtEnd ==
  ASSUME NEW r \in Record, NEW now \in Nat, Coherent(r)
  PROVE  /\ VmKept(r, DetachVm(Release(r)))
         /\ VmKept(r, Quarantine(r))
         /\ VmKept(r, ReapOne(r, now))
         /\ Stuck(ReapOne(r, now)) => VmKept(r, DetachVm(ReapOne(r, now)))
         /\ VmKept(r, r)
  BY DEF VmKept, Coherent, Record, RunnerState, Release, Quarantine, DetachVm, ReapOne, Stuck

\* A ready runner has no VM name to forget.
LEMMA ReadyHasNoVm ==
  ASSUME NEW r \in Record, Coherent(r), r.state = "ready", NEW s
  PROVE  VmKept(r, s)
  BY DEF VmKept, Coherent
================================================================================
