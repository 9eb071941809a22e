------------------------------ MODULE LeaseBook ------------------------------
(***************************************************************************)
(* What the state file promises its users, whoever writes it and however   *)
(* many of them: a book of runner records that changes by one whole        *)
(* command at a time.  FleetStore, with its lock, its private copies of    *)
(* the book and its crashes, is shown to implement this specification.     *)
(***************************************************************************)
EXTENDS RunnerLifecycle

CONSTANTS
  Runner,     \* runner identifiers
  Ttl,        \* lease lengths
  VmNameFor,  \* the VM name of a runner and a job
  MaxTime     \* bound on the clock

ASSUME BookAssumption ==
  /\ Ttl \subseteq Nat \ {0}
  /\ VmNameFor \in [Runner -> [Job -> VmName]]
  /\ MaxTime \in Nat

VARIABLES
  book,       \* the committed record of each runner
  now         \* the wall clock

vars == <<book, now>>

TypeOK == book \in [Runner -> Record] /\ now \in 0 .. MaxTime

Init == book = [r \in Runner |-> Fresh] /\ now = 0

------------------------------------------------------------------------------

\* A lease is granted; its deadline counts from some earlier moment t.  With
\* the Tart backend it comes with a running VM.
Grant(r) ==
  /\ \E j \in Job, ttl \in Ttl, t \in 0 .. now :
       /\ CanLease(book[r], j, ttl)
       /\ LET leased == Lease(book[r], j, ttl, t)
          IN  \/ book' = [book EXCEPT ![r] = leased]
              \/ book' = [book EXCEPT ![r] = AttachVm(leased, VmNameFor[r][j])]
  /\ UNCHANGED now

\* A boot failed and so did its cleanup: the runner leaves service with its VM.
Strand(r) ==
  /\ \E j \in Job :
       /\ \E ttl \in Ttl : CanLease(book[r], j, ttl)
       /\ book' = [book EXCEPT ![r] = StrandVm(@, VmNameFor[r][j])]
  /\ UNCHANGED now

\* Mutant: after a failed teardown the runner drains with its VM.
FinishKeepsVm(r) ==
  /\ CanRelease(book[r], book[r].job)
  /\ \/ book' = [book EXCEPT ![r] = DetachVm(Release(@))]
     \/ book' = [book EXCEPT ![r] = Release(@)]
  /\ UNCHANGED now

\* The job that holds the lease gives it back; its VM goes with it, or the
\* runner leaves service with the VM.
Finish(r) ==
  /\ CanRelease(book[r], book[r].job)
  /\ \/ book' = [book EXCEPT ![r] = DetachVm(Release(@))]
     \/ book[r].vm # NoVm /\ book' = [book EXCEPT ![r] = Quarantine(@)]
  /\ UNCHANGED now

\* Every lease that was overdue at some earlier moment t ends, and some of the
\* VMs that wait for teardown are gone.
Sweep ==
  /\ \E t \in 0 .. now, gone \in SUBSET Runner :
       LET reaped == [r \in Runner |-> ReapOne(book[r], t)]
       IN  /\ \A r \in gone : Stuck(reaped[r])
           /\ book' = [r \in Runner |-> IF r \in gone THEN DetachVm(reaped[r]) ELSE reaped[r]]
  /\ UNCHANGED now

Tick == now < MaxTime /\ now' = now + 1 /\ UNCHANGED book

Next ==
  \/ \E r \in Runner : Grant(r)
  \/ \E r \in Runner : Strand(r)
  \/ \E r \in Runner : Finish(r)
  \/ Sweep
  \/ Tick

Spec == Init /\ [][Next]_vars

------------------------------------------------------------------------------
(* Properties *)

\* The fields of every committed record agree: no runner is out of service
\* with a lease, leased without a deadline the reaper can see, or ready or
\* draining with a VM that no sweep would ever tear down.
RecordsCoherent == \A r \in Runner : Coherent(book[r])

\* Runners are single-use and leases are never rewritten: no sequence of
\* commands returns a used runner to the scheduler, revives a runner that was
\* quarantined, or moves a granted lease to another job or deadline.
LifecycleForward == [][\A r \in Runner : Forward(book[r], book'[r])]_vars

\* A VM name is forgotten only with the VM gone: a recorded VM stays recorded
\* under its name until a release or a sweep has torn it down, which takes the
\* runner out of service, and it never moves to a runner that is back in use.
VmStaysRecorded == [][\A r \in Runner : VmKept(book[r], book'[r])]_vars
==============================================================================
