--------------------------- MODULE RunnerLifecycle ---------------------------
(***************************************************************************)
(* One runner record and the operations that change it: the Runner class   *)
(* of src/mfm/model.py, the rule the Rust reaper applies to one record     *)
(* (Reaper/src/lib.rs) and the writes the commands make to its VM fields.  *)
(* An operation that the code refuses by raising has a guard, Can...; one  *)
(* without a guard never refuses.                                          *)
(***************************************************************************)
EXTENDS Integers

CONSTANTS
  Job,        \* job identifiers a caller may pass (non-empty strings)
  EmptyJob,   \* the empty string, which lease() refuses as a job
  VmName,     \* names of Tart VMs
  NoJob,      \* None in job_id
  NoExpiry,   \* None in lease_expires_at
  NoVm        \* None in vm_name

ASSUME LifecycleAssumption ==
  /\ {EmptyJob, NoJob} \cap Job = {}
  /\ EmptyJob # NoJob
  /\ NoExpiry \notin Int
  /\ NoVm \notin VmName

RunnerState == {"ready", "leased", "draining", "quarantined", "destroyed"}

\* runner_id and image never change, so a record leaves them to its index; of
\* vm_ip it keeps only whether there is one.
Record == [state:   RunnerState,
           job:     Job \cup {NoJob},
           expires: Nat \cup {NoExpiry},
           vm:      VmName \cup {NoVm},
           ip:      BOOLEAN]

Fresh == [state |-> "ready", job |-> NoJob, expires |-> NoExpiry, vm |-> NoVm, ip |-> FALSE]

------------------------------------------------------------------------------
(* Leases *)

\* Mutant: lease() without its check of the state.
CanLeaseAnyState(r, job, ttl) == job # EmptyJob /\ ttl > 0

CanLease(r, job, ttl) == r.state = "ready" /\ job # EmptyJob /\ ttl > 0

\* The deadline counts from the moment of the call, whatever follows it.
Lease(r, job, ttl, now) ==
  [r EXCEPT !.state = "leased", !.job = job, !.expires = now + ttl]

AbortLease(r) == [r EXCEPT !.state = "ready", !.job = NoJob, !.expires = NoExpiry]

\* Mutant: release() without its check of the job.
CanReleaseAnyJob(r, job) == r.state = "leased"

\* The deadline is not looked at: an overdue job may still release.
CanRelease(r, job) == r.state = "leased" /\ r.job = job

Release(r) == [r EXCEPT !.state = "draining", !.job = NoJob, !.expires = NoExpiry]

\* Mutants: quarantine() forgets the deadline, or leaves an empty job.
QuarantineKeepsDeadline(r) == [r EXCEPT !.state = "quarantined", !.job = NoJob]
QuarantineEmptiesJob(r) ==
  [r EXCEPT !.state = "quarantined", !.job = EmptyJob, !.expires = NoExpiry]

Quarantine(r) == [r EXCEPT !.state = "quarantined", !.job = NoJob, !.expires = NoExpiry]

------------------------------------------------------------------------------
(* The VM behind a runner *)

AttachVm(r, name) == [r EXCEPT !.vm = name, !.ip = TRUE]

\* The VM may remain after a failed boot: its name is kept, it never had an IP.
StrandVm(r, name) == [Quarantine(r) EXCEPT !.vm = name]

DetachVm(r) == [r EXCEPT !.vm = NoVm, !.ip = FALSE]

\* Mutant: the sweep tears down every VM it finds.
StuckAnyState(r) == r.vm # NoVm

\* What every sweep tries to tear down.
Stuck(r) == r.state = "quarantined" /\ r.vm # NoVm

------------------------------------------------------------------------------
(* The reaper's rule *)

\* A leased record without a deadline counts as overdue: fail closed.
Overdue(r, now) == r.state = "leased" /\ (r.expires = NoExpiry \/ r.expires <= now)

\* Mutant: the reaper puts an overdue runner back into service.
ReapOneRecovers(r, now) == IF Overdue(r, now) THEN AbortLease(r) ELSE r

ReapOne(r, now) == IF Overdue(r, now) THEN Quarantine(r) ELSE r

------------------------------------------------------------------------------
(* What a record may look like and become *)

\* The fields of one record agree: a job and a deadline exactly while leased,
\* a VM only while leased or waiting for teardown, an address only with a VM.
Coherent(r) ==
  /\ r.state = "leased" <=> r.job # NoJob
  /\ r.state = "leased" <=> r.expires # NoExpiry
  /\ r.vm # NoVm => r.state \in {"leased", "quarantined"}
  /\ r.ip => r.vm # NoVm
  /\ r.state # "destroyed"

Stage == [ready |-> 0, leased |-> 1, draining |-> 2, quarantined |-> 2, destroyed |-> 3]

\* A runner is single-use: it never returns to an earlier stage, it leaves a
\* final stage for no other, and one that stays leased keeps job and deadline.
Forward(r, s) ==
  /\ Stage[r.state] <= Stage[s.state]
  /\ Stage[r.state] >= 2 => s.state = r.state
  /\ r.state = "leased" /\ s.state = "leased" => s.job = r.job /\ s.expires = r.expires

\* A VM's name is forgotten only with the VM: until its teardown the record
\* keeps it, and only a runner that left its lease may have lost it.
VmKept(r, s) ==
  r.vm # NoVm =>
    \/ s.vm = r.vm /\ s.state \in {"leased", "quarantined"}
    \/ s.vm = NoVm /\ s.state \in {"draining", "quarantined"}
==============================================================================
