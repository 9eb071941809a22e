---------------------------- MODULE FleetTartProofs ----------------------------
(***************************************************************************)
(* With its VM operations taken apart into Tart commands the fleet is      *)
(* still the store, by construction: the last step of an operation is the  *)
(* store's own and the others leave the store alone. What is proved about  *)
(* the store is thus true here, the lease book included.                   *)
(* Then what the store cannot say: dry runs foretell, no VM is forgotten,  *)
(* deleted under a job that holds it, or lost sight of except by an        *)
(* acquire that is cut short, and whoever holds the lock comes to its end. *)
(***************************************************************************)
EXTENDS FleetTart, FleetStoreRefines, WellFoundedInduction, Sequences

\* A step of an operation that is not its last leaves the store alone.
LEMMA ThenStutters ==
  ASSUME NEW p, NEW s, Then(p, s)
  PROVE  UNCHANGED vars
BY DEF Then

\* An acquire that ends, however it ends, is the store's BootVm.
LEMMA BootEnds ==
  ASSUME NEW c \in Cli, Booted(c) \/ Undone(c)
  PROVE  BootVm(c)
BY DEF Booted, Undone, Over

\* An operation that ends is the store's BootVm, TeardownVm or SweepVm, by a
\* process that may take that step.
LEMMA OperationEnds ==
  ASSUME NEW p \in Proc, Working(p), Removed(p) \/ GivesUp(p)
  PROVE  \/ p \in Cli /\ (BootVm(p) \/ TeardownVm(p))
         \/ p \in Reaper /\ SweepVm(p)
<1>1. Working(p) => p \in Cli \/ (p \in Reaper /\ pc[p] = "sweep")
  BY DEF Working
<1>2. BootVm(p) => pc[p] = "boot"
  BY DEF BootVm
<1>3. TeardownVm(p) => pc[p] = "teardown"
  BY DEF TeardownVm
<1>4. SweepVm(p) => pc[p] = "sweep"
  BY DEF SweepVm
<1>5. p \in Cli /\ Working(p) /\ p \notin Reaper => pc[p] \in {"boot", "teardown"}
  BY DEF Working
<1>6. ~(p \in Cli /\ p \in Reaper)
  BY StoreAssumption
<1>7. BootVm(p) \/ TeardownVm(p) \/ SweepVm(p)
  BY DEF Removed, Undone, GivesUp, Over
<1> QED
  BY <1>1, <1>2, <1>3, <1>4, <1>5, <1>6, <1>7

\* What the last step of an operation is to the store.
LEMMA EndIsStoreStep ==
  ASSUME NEW p \in Proc,
         \/ p \in Cli /\ (BootVm(p) \/ TeardownVm(p))
         \/ p \in Reaper /\ SweepVm(p)
  PROVE  Next
BY DEF Next, CliStep, ReaperStep

\* Every step of a VM operation is a step of the store or none.
LEMMA OpRefines ==
  ASSUME NEW p \in Proc, TartOp(p)
  PROVE  [Next]_vars
<1>1. CASE CollisionCheck(p)
  BY <1>1, ThenStutters, BootEnds, EndIsStoreStep DEF CollisionCheck, Booting
<1>2. CASE Clone(p)
  BY <1>2, ThenStutters DEF Clone
<1>3. CASE Spawn(p)
  BY <1>3 DEF Spawn
<1>4. CASE WaitForIp(p)
  BY <1>4, ThenStutters, BootEnds, EndIsStoreStep DEF WaitForIp, Booting
<1>5. CASE Cleanup(p)
  <2>1. Working(p)
    BY <1>5 DEF Cleanup, Booting, Working
  <2> QED
    BY <1>5, <2>1, ThenStutters, OperationEnds, EndIsStoreStep DEF Cleanup, Removed
<1>6. CASE Stop(p)
  BY <1>6, ThenStutters, OperationEnds, EndIsStoreStep DEF Stop, Stopping
<1>7. CASE Delete(p)
  BY <1>7, ThenStutters, OperationEnds, EndIsStoreStep DEF Delete
<1>8. CASE Confirm(p)
  BY <1>8, ThenStutters, OperationEnds, EndIsStoreStep DEF Confirm
<1>9. CASE Raises(p)
  BY <1>9 DEF Raises, Over, Next, Transact
<1> QED
  BY <1>1, <1>2, <1>3, <1>4, <1>5, <1>6, <1>7, <1>8, <1>9 DEF TartOp

\* The other steps of the store are taken over as they are.
LEMMA StoreStepRefines ==
  ASSUME NEW p \in Proc, StoreStep(p)
  PROVE  Next
<1>1. CASE p \in Cli /\ CliStep(p)
  BY <1>1 DEF Next
<1>2. CASE p \in Reaper /\ ReaperStep(p)
  BY <1>2 DEF Next
<1>3. CASE Transact(p)
  BY <1>3 DEF Next
<1> QED
  BY <1>1, <1>2, <1>3 DEF StoreStep, CliStep, ReaperStep, Transact

\* Every step of the fleet with its VMs is a step of the store or none.
LEMMA StepRefines ==
  ASSUME [TartNext]_tartvars
  PROVE  [Next]_vars
<1>1. CASE UNCHANGED tartvars
  BY <1>1 DEF tartvars
<1>2. CASE \E c \in Cli : Invoke(c) /\ UNCHANGED host
  BY <1>2 DEF Next
<1>3. CASE \E p \in Reaper : (StartSweep(p) \/ Restart(p)) /\ UNCHANGED host
  BY <1>3 DEF Next
<1>4. CASE \E p \in Proc : (Flock(p) \/ StoreStep(p)) /\ UNCHANGED host
  BY <1>4, StoreStepRefines DEF Next
<1>5. CASE \E p \in Proc : TartOp(p) \/ KillMfm(p)
  BY <1>5, OpRefines DEF KillMfm, Next
<1>6. CASE Tick /\ UNCHANGED host
  BY <1>6 DEF Next
<1>7. CASE LooseEnds \/ VmExits
  BY <1>7 DEF LooseEnds, VmExits
<1> QED
  BY <1>1, <1>2, <1>3, <1>4, <1>5, <1>6, <1>7 DEF TartNext

\* FleetTart takes each of its steps on the store from FleetStore, so what is
\* proved of the store holds here.
LEMMA TartIsStore == TartSpec => Spec
<1>1. TartInit => Init
  BY DEF TartInit
<1> QED
  BY <1>1, StepRefines, PTL DEF TartSpec, Spec

\* With the VMs on its host the fleet implements the lease book ...
THEOREM TartImplementsBook == TartSpec => ImplementsBook
BY TartIsStore, FileImplementsBook, PTL

\* ... and loses no update and no grant, however the Tart commands end.
THEOREM TartLosesNothing == TartSpec => [](NoLostUpdate /\ GrantIsKept)
BY TartIsStore, NoUpdateIsLost, GrantsAreKept, PTL

------------------------------------------------------------------------------
(* Dry runs *)

\* While an acquire boots its VM, the file still offers the runner it chose.
ChosenInv ==
  \A c \in Cli : pc[c] = "boot" => req[c] \in Acquires /\ target[c] = Chosen(req[c], Committed)

\* A boot begins with the choice of a runner.
LEMMA BootPlace ==
  ASSUME TInv, NEW p \in Proc, StepOf(p), pc'[p] = "boot"
  PROVE  LeaseRunner(p)
<1> USE DEF TInv, TypeOK, Goto
<1>1. CASE Invoke(p) \/ StartSweep(p) \/ Restart(p) \/ Flock(p) \/ Load(p) \/ LoadFails(p)
  BY <1>1 DEF Invoke, StartSweep, Restart, Flock, LockFree, Load, LoadFails
<1>2. CASE AcquireRefused(p) \/ LeaseRunner(p) \/ ReleaseRefused(p) \/ ReleaseRunner(p)
  BY <1>2 DEF AcquireRefused, ReleaseRefused, ReleaseRunner
<1>3. CASE BootVm(p) \/ TeardownVm(p)
  <2>1. pc' = [pc EXCEPT ![p] = "save"]
    BY <1>3, Zenon DEF BootVm, TeardownVm, Settle
  <2> QED
    BY <2>1
<1>4. CASE ReaperFails(p) \/ SweepEnds(p) \/ VmOpRaises(p) \/ SaveFails(p)
  BY <1>4 DEF ReaperFails, SweepEnds, VmOpRaises, SaveFails
<1>5. CASE Reap(p) \/ SweepVm(p)
  BY <1>5 DEF Reap, SweepVm
<1>6. CASE CreateTemp(p) \/ WriteTemp(p) \/ Replace(p)
  BY <1>6 DEF CreateTemp, WriteTemp, Replace
<1>7. CASE Exit(p) \/ EndSweep(p) \/ Kill(p)
  <2>1. \E l \in {"idle", "down"} : pc' = [pc EXCEPT ![p] = l]
    BY <1>7, Zenon DEF Exit, EndSweep, Kill, Leave
  <2> QED
    BY <2>1
<1> QED
  BY <1>1, <1>2, <1>3, <1>4, <1>5, <1>6, <1>7 DEF StepOf, CliStep, ReaperStep, Transact

LEMMA ChosenStep == IInv /\ ChosenInv /\ [Next]_vars => ChosenInv'
<1> SUFFICES ASSUME IInv, ChosenInv, [Next]_vars, NEW c \in Cli, pc'[c] = "boot"
             PROVE  req'[c] \in Acquires /\ target'[c] = Chosen(req'[c], Committed')
  BY DEF ChosenInv
<1> USE DEF IInv
<1>1. c \in Proc
  BY DEF Proc
<1>2. CASE UNCHANGED vars \/ Tick
  BY <1>2 DEF vars, local, Tick, ChosenInv, Committed
<1>3. ASSUME NEW p \in Proc, StepOf(p), p # c
      PROVE  req'[c] \in Acquires /\ target'[c] = Chosen(req'[c], Committed')
  <2>1. Same(c) /\ (pc[c] \in Holding => file' = file)
    BY <1>1, <1>3, OthersKeep
  <2>2. pc[c] = "boot"
    BY <2>1 DEF Same
  <2> QED
    BY <2>1, <2>2 DEF Same, Holding, ChosenInv, Committed
<1>4. ASSUME StepOf(c)
      PROVE  req'[c] \in Acquires /\ target'[c] = Chosen(req'[c], Committed')
  <2>1. LeaseRunner(c)
    BY <1>1, <1>4, BootPlace
  <2>2. mem[c] = Committed
    BY <1>1, <2>1 DEF LeaseRunner, AtAcquire, Pend
  <2>3. /\ req[c] \in Acquires /\ req' = req /\ file' = file
        /\ target' = [target EXCEPT ![c] = Chosen(req[c], mem[c])]
    BY <2>1 DEF LeaseRunner, AtAcquire
  <2> QED
    BY <1>1, <2>2, <2>3 DEF TInv, TypeOK, Committed
<1> QED
  BY <1>2, <1>3, <1>4, NextSteps

\* What a dry run reads without the lock is what a command under way is doing.
LEMMA PlanIsWork ==
  ASSUME IInv, ChosenInv
  PROVE  DryRunForetells
<1> SUFFICES ASSUME NEW c \in Cli, Planned(c)[1] > 0
             PROVE  LET place == Planned(c)[1]
                        plan == DryPlan(req[c], Committed)
                    IN  place \in DOMAIN plan /\ plan[place] = <<Planned(c)[2], VmOf(c)>>
  BY DEF DryRunForetells
<1>1. CASE pc[c] = "boot"
  <2>1. req[c].op = "acquire" /\ target[c] = Chosen(req[c], Committed)
    BY <1>1, StoreAssumption DEF ChosenInv, IsAcquire
  <2>2. DryPlan(req[c], Committed) = plan_acquire(VmOf(c))
    BY <1>1, <2>1 DEF DryPlan, VmOf
  <2>3. Planned(c) \in {<<1, "clone">>, <<2, "run">>, <<3, "ip">>}
    BY <1>1 DEF Planned, Booting
  <2> QED
    BY <2>2, <2>3 DEF plan_acquire
<1>2. CASE pc[c] = "teardown"
  <2>1. /\ req[c] \in Releases /\ req[c].runner = target[c] /\ Committed[target[c]].vm # NoVm
        /\ mem[c] = [Committed EXCEPT ![target[c]] = Release(Committed[target[c]])]
        /\ target[c] \in Runner /\ Committed \in Fleet
    BY <1>2, LoadedTyped DEF IInv, Pend, TInv, Shape, Proc
  <2>2. req[c].op = "release"
    BY <2>1, StoreAssumption DEF IsRelease
  <2>3. VmOf(c) = Committed[target[c]].vm
    BY <1>2, <2>1 DEF VmOf, Release, Fleet, Record
  <2>4. DryPlan(req[c], Committed) = plan_release(VmOf(c))
    BY <2>1, <2>2, <2>3 DEF DryPlan
  <2>5. Planned(c) \in {<<1, "stop">>, <<2, "delete">>}
    BY <1>2 DEF Planned, Booting
  <2> QED
    BY <2>4, <2>5 DEF plan_release
<1>3. CASE pc[c] \notin {"boot", "teardown"}
  BY <1>3 DEF Planned, Booting
<1> QED
  BY <1>1, <1>2, <1>3

\* A dry run prints what the same command line, under way, does.
THEOREM DryRunsAreTrue == TartSpec => []DryRunForetells
<1>1. Init => ChosenInv
  BY DEF Init, ChosenInv, Proc
<1>2. Spec => []ChosenInv
  BY <1>1, ChosenStep, Invariance, PTL DEF Spec
<1> QED
  BY <1>2, TartIsStore, Invariance, PlanIsWork, PTL

------------------------------------------------------------------------------
(* No VM is forgotten *)

\* Processes end by themselves, and what they raise is a TartError or none of
\* the adapter's: nothing takes a transaction from under a VM.
Unbroken == Mortal = {} /\ Faults \cap {"os", "save"} = {}

\* A record of the fleet names VM n.
Names(fleet, n) == \E r \in Runner : fleet[r].vm = n

InBoot(n) == \E c \in Cli : Booting(c) /\ step[c] \notin {"start", "clone"} /\ VmOf(c) = n

HostInv ==
  /\ vms \in [VmName -> {"absent", "stopped", "running"}] /\ step \in [Proc -> Steps]
  /\ \A x \in loose : x[1] = "run"
  /\ \A n \in VmName : vms[n] # "absent" => Names(Coming, n) \/ InBoot(n)

\* The holder of the lock says what the fleet will be.
LEMMA ComingIs ==
  ASSUME IInv
  PROVE  /\ \A p \in Proc : InTransaction(p) => Coming = mem[p] /\ lock = p
         /\ \A p \in Proc : lock = p /\ ~InTransaction(p) => Coming = Committed
         /\ lock = Nobody => Coming = Committed
  BY StoreAssumption DEF Coming, IInv, LockInv, InTransaction, Holding

LEMMA ComingNext ==
  ASSUME IInv'
  PROVE  /\ \A p \in Proc : InTransaction(p)' => Coming' = mem'[p] /\ lock' = p
         /\ \A p \in Proc : lock' = p /\ ~InTransaction(p)' => Coming' = Committed'
         /\ lock' = Nobody => Coming' = Committed'
  BY StoreAssumption DEF Coming, IInv, LockInv, InTransaction, Holding

\* A VM operation of a lease command that ends settles its runner's record.
LEMMA SettleNames ==
  ASSUME IInv, IInv', NEW c \in Cli, pc[c] \in {"boot", "teardown"},
         NEW m, NEW s, Settle(c, m, s)
  PROVE  /\ target[c] \in Runner /\ Coming = mem[c] /\ mem[c] \in Fleet
         /\ mem'[c] = [mem[c] EXCEPT ![target[c]] = m] /\ Coming' = mem'[c]
<1>1. c \in Proc
  BY DEF Proc
<1>2. InTransaction(c) /\ InTransaction(c)'
  BY <1>1 DEF Settle, Goto, InTransaction, Holding, IInv, TInv, TypeOK
<1>3. mem[c] \in Fleet /\ target[c] \in Runner
  BY <1>1, <1>2 DEF IInv, TInv, Shape
<1>4. mem'[c] = [mem[c] EXCEPT ![target[c]] = m]
  BY <1>1 DEF Settle, IInv, TInv, TypeOK
<1> QED
  BY <1>1, <1>2, <1>3, <1>4, ComingIs, ComingNext

LEMMA BootNames ==
  ASSUME IInv, IInv', NEW c \in Cli, BootVm(c)
  PROVE  /\ \A n \in VmName : Names(Coming, n) => Names(Coming', n)
         /\ mem'[c][target[c]].ip \/ mem'[c][target[c]].state = "quarantined" => Names(Coming', VmOf(c))
<1> DEFINE r == mem[c][target[c]]
           name == VmNameFor[target[c]][req[c].job]
<1>1. pc[c] = "boot" /\ c \in Proc
  BY DEF BootVm, Proc
<1>2. /\ \/ Settle(c, AttachVm(r, name), "success")
         \/ Settle(c, AbortLease(r), "failure")
         \/ Settle(c, StrandVm(r, name), "failure")
  BY DEF BootVm
<1>3. /\ target[c] \in Runner /\ Coming = mem[c] /\ mem[c] \in Fleet
      /\ Coming' = mem'[c]
      /\ \/ mem'[c] = [mem[c] EXCEPT ![target[c]] = AttachVm(r, name)]
         \/ mem'[c] = [mem[c] EXCEPT ![target[c]] = AbortLease(r)]
         \/ mem'[c] = [mem[c] EXCEPT ![target[c]] = StrandVm(r, name)]
  BY <1>1, <1>2, SettleNames
<1>4. r \in Record /\ r.vm = NoVm /\ r.ip = FALSE /\ r.state = "leased"
  <2>1. PICK t \in 0 .. now :
          /\ CanLease(Committed[target[c]], req[c].job, req[c].ttl)
          /\ mem[c] = [Committed EXCEPT ![target[c]] =
                         Lease(Committed[target[c]], req[c].job, req[c].ttl, t)]
    BY <1>1 DEF IInv, Pend
  <2>2. Committed \in Fleet /\ Committed[target[c]] \in Record /\ Coherent(Committed[target[c]])
    BY <1>3, LoadedTyped DEF IInv, Fleet
  <2>3. Committed[target[c]].vm = NoVm /\ Committed[target[c]].ip = FALSE
    BY <2>1, <2>2 DEF CanLease, Coherent, Record
  <2>4. r = Lease(Committed[target[c]], req[c].job, req[c].ttl, t)
    BY <1>3, <2>1, <2>2 DEF Fleet
  <2> QED
    BY <1>3, <2>2, <2>3, <2>4 DEF Lease, Record, Fleet
<1>5. VmOf(c) = name
  BY <1>1 DEF VmOf
<1>6. \A n \in VmName : Names(Coming, n) => Names(Coming', n)
  BY <1>3, <1>4, LifecycleAssumption DEF Names, Fleet
<1>7. ASSUME mem'[c][target[c]].ip \/ mem'[c][target[c]].state = "quarantined"
      PROVE  Coming'[target[c]].vm = name
  <2>1. \/ mem'[c][target[c]] = AttachVm(r, name)
        \/ mem'[c][target[c]] = AbortLease(r)
        \/ mem'[c][target[c]] = StrandVm(r, name)
    BY <1>3 DEF Fleet
  <2> QED
    BY <1>3, <1>4, <1>7, <2>1 DEF AttachVm, AbortLease, StrandVm, Quarantine, Record
<1> QED
  BY <1>3, <1>5, <1>6, <1>7 DEF Names

LEMMA TeardownNames ==
  ASSUME IInv, IInv', NEW c \in Cli, TeardownVm(c)
  PROVE  /\ \A n \in VmName \ {VmOf(c)} : Names(Coming, n) => Names(Coming', n)
         /\ mem'[c][target[c]].vm # NoVm => \A n \in VmName : Names(Coming, n) => Names(Coming', n)
<1> DEFINE r == mem[c][target[c]]
<1>1. pc[c] = "teardown" /\ VmOf(c) = r.vm
  BY DEF TeardownVm, VmOf
<1>2. Settle(c, DetachVm(r), "success") \/ Settle(c, Quarantine(r), "failure")
  BY DEF TeardownVm
<1>3. /\ target[c] \in Runner /\ Coming = mem[c] /\ mem[c] \in Fleet
      /\ Coming' = mem'[c]
      /\ \/ mem'[c] = [mem[c] EXCEPT ![target[c]] = DetachVm(r)]
         \/ mem'[c] = [mem[c] EXCEPT ![target[c]] = Quarantine(r)]
  BY <1>1, <1>2, SettleNames
<1>4. r \in Record /\ DetachVm(r).vm = NoVm /\ Quarantine(r).vm = r.vm
  BY <1>3 DEF Fleet, Record, DetachVm, Quarantine
<1>5. CASE mem'[c] = [mem[c] EXCEPT ![target[c]] = DetachVm(r)]
  BY <1>1, <1>3, <1>4, <1>5 DEF Names, Fleet
<1>6. CASE mem'[c] = [mem[c] EXCEPT ![target[c]] = Quarantine(r)]
  BY <1>3, <1>4, <1>6 DEF Names, Fleet
<1> QED
  BY <1>3, <1>5, <1>6

LEMMA SweepNames ==
  ASSUME IInv, IInv', NEW p \in Reaper, SweepVm(p)
  PROVE  /\ \A n \in VmName \ {VmOf(p)} : Names(Coming, n) => Names(Coming', n)
         /\ mem' = mem => \A n \in VmName : Names(Coming, n) => Names(Coming', n)
<1>1. p \in Proc /\ pc[p] = "sweep" /\ pc' = pc /\ VmOf(p) = mem[p][FirstStuck(p)].vm
  BY DEF SweepVm, VmOf, Proc
<1>2. InTransaction(p) /\ InTransaction(p)'
  BY <1>1 DEF InTransaction, Holding
<1>3. mem[p] \in Fleet /\ Coming = mem[p] /\ Coming' = mem'[p]
  BY <1>1, <1>2, ComingIs, ComingNext DEF IInv, TInv, Shape
<1>4. PICK r \in todo[p] :
        /\ \A s \in todo[p] : Position[r] <= Position[s]
        /\ mem' = [mem EXCEPT ![p] = [mem[p] EXCEPT ![r] = DetachVm(mem[p][r])]] \/ mem' = mem
  BY DEF SweepVm
<1>5. todo[p] \subseteq Runner
  BY <1>1 DEF IInv, TInv, TypeOK
<1>6. FirstStuck(p) = r
  <2>1. \A x \in todo[p] : (\A s \in todo[p] : Position[x] <= Position[s]) => x = r
    BY <1>4, <1>5, PickAssumption
  <2> QED
    BY <1>4, <2>1 DEF FirstStuck
<1>7. mem'[p] = [mem[p] EXCEPT ![r] = DetachVm(mem[p][r])] \/ mem'[p] = mem[p]
  BY <1>1, <1>4 DEF IInv, TInv, TypeOK
<1> QED
  BY <1>1, <1>3, <1>5, <1>6, <1>7 DEF Names, Fleet

\* However an operation ends, only a VM that is removed loses its name, and one
\* that may remain has one.
LEMMA OpEndNames ==
  ASSUME IInv, IInv', NEW p \in Proc, Working(p)
  PROVE  /\ Undone(p) => \A n \in VmName : Names(Coming, n) => Names(Coming', n)
         /\ Removed(p) => \A n \in VmName \ {VmOf(p)} : Names(Coming, n) => Names(Coming', n)
         /\ GivesUp(p) \/ Booted(p) =>
              \A n \in VmName : Names(Coming, n) \/ (pc[p] = "boot" /\ n = VmOf(p)) => Names(Coming', n)
<1>1. /\ BootVm(p) => p \in Cli
      /\ TeardownVm(p) => p \in Cli
      /\ SweepVm(p) => p \in Reaper
  BY DEF BootVm, TeardownVm, SweepVm, IInv, RoleInv, Proc
<1>2. Undone(p) => \A n \in VmName : Names(Coming, n) => Names(Coming', n)
  BY <1>1, BootNames DEF Undone, Over
<1>3. Removed(p) => \A n \in VmName \ {VmOf(p)} : Names(Coming, n) => Names(Coming', n)
  BY <1>1, <1>2, TeardownNames, SweepNames DEF Removed, Over
<1>4. Booted(p) => \A n \in VmName : Names(Coming, n) \/ n = VmOf(p) => Names(Coming', n)
  BY <1>1, BootNames DEF Booted, Over
<1>5. ASSUME GivesUp(p)
      PROVE  \A n \in VmName : Names(Coming, n) \/ (pc[p] = "boot" /\ n = VmOf(p)) => Names(Coming', n)
  <2>1. CASE BootVm(p) /\ mem'[p][target[p]].state = "quarantined"
    BY <1>1, <2>1, BootNames
  <2>2. CASE TeardownVm(p) /\ mem'[p][target[p]].vm # NoVm
    <3>1. pc[p] = "teardown"
      BY <2>2 DEF TeardownVm
    <3> QED
      BY <1>1, <2>2, <3>1, TeardownNames
  <2>3. CASE SweepVm(p) /\ mem' = mem
    <3>1. pc[p] = "sweep"
      BY <2>3 DEF SweepVm
    <3> QED
      BY <1>1, <2>3, <3>1, SweepNames
  <2> QED
    BY <1>5, <2>1, <2>2, <2>3 DEF GivesUp, Over
<1> QED
  BY <1>2, <1>3, <1>4, <1>5

\* No other step of the store changes what VM a record is to name.
SameVms == \A r \in Runner : Coming'[r].vm = Coming[r].vm

LEMMA OutsideKeepsVms ==
  ASSUME IInv, IInv', NEW p \in Proc,
         Invoke(p) \/ StartSweep(p) \/ Restart(p) \/ Flock(p) \/ Load(p) \/ LoadFails(p)
           \/ Exit(p) \/ EndSweep(p) \/ Replace(p)
  PROVE  SameVms
<1> USE DEF Goto, IInv, TInv, TypeOK, SameVms
<1>1. CASE Invoke(p) \/ StartSweep(p) \/ Restart(p)
  <2>1. /\ pc[p] \notin Holding /\ lock' = lock /\ mem' = mem /\ file' = file
        /\ \A q \in Proc : q # p => pc'[q] = pc[q]
    BY <1>1 DEF Invoke, StartSweep, Restart, local, Holding
  <2>2. lock # p
    BY <2>1 DEF LockInv
  <2> QED
    BY <2>1, <2>2 DEF Coming, InTransaction, Committed
<1>2. CASE Flock(p)
  BY <1>2, ComingIs, ComingNext DEF Flock, LockFree, InTransaction, Committed, local
<1>3. CASE Load(p)
  <2>1. pc[p] = "locked" /\ pc'[p] = "loaded" /\ mem'[p] = Committed /\ lock = p
    BY <1>3 DEF Load, LockInv, Holding
  <2> QED
    BY <2>1, ComingIs, ComingNext DEF InTransaction, Holding
<1>6. CASE LoadFails(p)
  <2>1. pc[p] = "locked" /\ pc'[p] = "failed" /\ lock = p /\ lock' = lock /\ file' = file
    BY <1>6 DEF LoadFails, LockInv, Holding
  <2> QED
    BY <2>1, ComingIs, ComingNext DEF InTransaction, Holding, Committed
<1>4. CASE Exit(p) \/ EndSweep(p)
  <2>1. /\ pc[p] \in {"exit", "failed"} /\ file' = file /\ lock = p /\ lock' = Nobody
    BY <1>4 DEF Exit, EndSweep, Leave, Unlocked, LockInv, Holding
  <2> QED
    BY <2>1, ComingIs, ComingNext DEF InTransaction, Committed
<1>5. CASE Replace(p)
  <2>1. Committed' = mem[p] /\ pc[p] = "replace" /\ pc'[p] = "exit" /\ lock' = lock
    BY <1>5, ReplaceCommits DEF Replace
  <2>2. lock = p
    BY <2>1 DEF LockInv, Holding
  <2> QED
    BY <2>1, <2>2, ComingIs, ComingNext DEF InTransaction, Holding
<1> QED
  BY <1>1, <1>2, <1>3, <1>4, <1>5, <1>6

LEMMA InsideKeepsVms ==
  ASSUME IInv, IInv', NEW p \in Proc,
         \/ AcquireRefused(p) \/ ReleaseRefused(p) \/ ReaperFails(p)
         \/ LeaseRunner(p) \/ ReleaseRunner(p) \/ Reap(p)
         \/ SweepEnds(p) \/ CreateTemp(p) \/ WriteTemp(p)
  PROVE  SameVms
<1> USE DEF Goto, SameVms
<1>1. CASE AcquireRefused(p) \/ ReleaseRefused(p) \/ ReaperFails(p)
  <2>1. pc[p] = "loaded" /\ pc'[p] = "failed" /\ lock' = lock /\ file' = file
    BY <1>1 DEF AcquireRefused, ReleaseRefused, ReaperFails, AtAcquire, AtRelease, IInv, TInv, TypeOK
  <2>2. mem[p] = Committed /\ lock = p
    BY <2>1 DEF IInv, Pend, LockInv, Holding
  <2> QED
    BY <2>1, <2>2, ComingIs, ComingNext DEF InTransaction, Holding, Committed
<1>2. CASE LeaseRunner(p) \/ ReleaseRunner(p)
  <2> DEFINE leases == Lease(mem[p][Chosen(req[p], mem[p])], req[p].job, req[p].ttl, now)
             releases == Release(mem[p][req[p].runner])
  <2>1. pc[p] = "loaded" /\ pc'[p] \in {"boot", "teardown", "save"}
    BY <1>2 DEF LeaseRunner, ReleaseRunner, AtAcquire, AtRelease, IInv, TInv, TypeOK
  <2>2. InTransaction(p) /\ InTransaction(p)' /\ mem[p] \in Fleet
    BY <2>1 DEF InTransaction, Holding, IInv, TInv, Shape
  <2>3. \/ mem'[p] = [mem[p] EXCEPT ![Chosen(req[p], mem[p])] = leases]
        \/ mem'[p] = [mem[p] EXCEPT ![req[p].runner] = releases]
    BY <1>2 DEF LeaseRunner, ReleaseRunner, IInv, TInv, TypeOK
  <2>4. ASSUME NEW x, NEW m, \A r \in Runner : r = x => m.vm = mem[p][r].vm,
               mem'[p] = [mem[p] EXCEPT ![x] = m]
        PROVE  \A r \in Runner : mem'[p][r].vm = mem[p][r].vm
    BY <2>2, <2>4 DEF Fleet
  <2>5. \A r \in Runner : /\ r = Chosen(req[p], mem[p]) => leases.vm = mem[p][r].vm
                          /\ r = req[p].runner => releases.vm = mem[p][r].vm
    BY <2>2 DEF Lease, Release, Fleet, Record
  <2> HIDE DEF leases, releases
  <2>6. \A r \in Runner : mem'[p][r].vm = mem[p][r].vm
    BY <2>3, <2>4, <2>5
  <2> QED
    BY <2>2, <2>6, ComingIs, ComingNext
<1>3. CASE Reap(p)
  <2>1. pc[p] = "loaded" /\ pc'[p] = "sweep"
    BY <1>3 DEF Reap, IInv, TInv, TypeOK
  <2>2. InTransaction(p) /\ InTransaction(p)' /\ mem[p] \in Fleet
    BY <2>1 DEF InTransaction, Holding, IInv, TInv, Shape
  <2>3. mem'[p] = [r \in Runner |-> ReapOne(mem[p][r], now)]
    BY <1>3 DEF Reap, IInv, TInv, TypeOK
  <2>4. \A r \in Runner : mem'[p][r].vm = mem[p][r].vm
    <3>1. ASSUME NEW r \in Runner
          PROVE  mem'[p][r] = ReapOne(mem[p][r], now) /\ mem[p][r] \in Record
      BY <2>2, <2>3, Zenon DEF Fleet
    <3>2. \A x \in Record : ReapOne(x, now).vm = x.vm
      BY DEF ReapOne, Quarantine, Record
    <3> QED
      BY <3>1, <3>2
  <2> QED
    BY <2>2, <2>4, ComingIs, ComingNext
<1>4. CASE SweepEnds(p) \/ CreateTemp(p) \/ WriteTemp(p)
  <2>1. /\ pc[p] \in {"sweep", "save", "write"} /\ pc'[p] \in {"save", "write", "replace"}
        /\ mem' = mem
    BY <1>4 DEF SweepEnds, CreateTemp, WriteTemp, local, IInv, TInv, TypeOK
  <2>2. InTransaction(p) /\ InTransaction(p)'
    BY <2>1 DEF InTransaction, Holding
  <2> QED
    BY <2>1, <2>2, ComingIs, ComingNext
<1> QED
  BY <1>1, <1>2, <1>3, <1>4

\* Every step that leaves the host alone leaves the names alone.
LEMMA QuietKeepsVms ==
  ASSUME IInv, IInv', Unbroken,
         \/ \E c \in Cli : Invoke(c)
         \/ \E p \in Reaper : StartSweep(p) \/ Restart(p)
         \/ \E p \in Proc : Flock(p) \/ StoreStep(p)
         \/ Tick
  PROVE  SameVms
<1>1. CASE Tick
  BY <1>1 DEF Tick, local, SameVms, Coming, InTransaction, Committed
<1>2. ASSUME NEW p \in Proc, SaveFails(p)
      PROVE  FALSE
  BY <1>2 DEF SaveFails, Unbroken
<1> QED
  BY <1>1, <1>2, OutsideKeepsVms, InsideKeepsVms DEF StoreStep, Proc

VmState == {"absent", "stopped", "running"}

\* What a Tart command does to the host's VMs, if it does anything.
LEMMA EffectIs ==
  ASSUME vms \in [VmName -> VmState], NEW cmd \in DOMAIN Needs, NEW n,
         Fails(cmd, n)
  PROVE  /\ vms' \in [VmName -> VmState]
         /\ \A m \in VmName : m # n => vms'[m] = vms[m]
         /\ \A m \in VmName : cmd # "clone" /\ vms'[m] # "absent" => vms[m] # "absent"
         /\ TakesEffect(cmd, n) => \A m \in VmName : m = n => vms'[m] = Leaves[cmd]
<1>1. CASE vms' = vms /\ ~TakesEffect(cmd, n)
  BY <1>1
<1>2. CASE TakesEffect(cmd, n)
  <2>1. vms[n] = Needs[cmd] /\ vms' = [vms EXCEPT ![n] = Leaves[cmd]]
    BY <1>2 DEF TakesEffect
  <2>2. Leaves[cmd] \in VmState /\ (cmd # "clone" => Needs[cmd] # "absent")
    BY DEF Needs, Leaves, VmState
  <2> QED
    BY <2>1, <2>2
<1> QED
  BY <1>1, <1>2 DEF Fails

\* Only one process is at work, and only the VM it boots needs no record.
LEMMA OneAtWork ==
  ASSUME IInv, NEW p \in Proc, Working(p)
  PROVE  \A n : InBoot(n) => Booting(p) /\ n = VmOf(p) /\ step[p] \notin {"start", "clone"}
<1>1. lock = p
  BY DEF Working, IInv, LockInv, Holding
<1>2. \A c \in Cli : Booting(c) => lock = c
  BY DEF Booting, IInv, LockInv, Holding, Proc
<1> QED
  BY <1>1, <1>2 DEF InBoot

\* An operation goes on: what it boots is its own until it ends.
LEMMA ThenHost ==
  ASSUME IInv, HostInv, NEW p \in Proc, Working(p), NEW s \in Steps, Then(p, s),
         vms' \in [VmName -> VmState],
         \A m \in VmName : m # VmOf(p) => vms'[m] = vms[m],
         \A m \in VmName : vms'[m] # "absent" => vms[m] # "absent" \/ Booting(p),
         Booting(p) => s \notin {"start", "clone"} \/ (vms' = vms /\ step[p] = "start")
  PROVE  HostInv'
<1>1. /\ UNCHANGED <<vars, loose>> /\ step' = [step EXCEPT ![p] = s] /\ step' \in [Proc -> Steps]
  BY DEF Then, HostInv
<1>2. Coming' = Coming /\ \A c \in Cli : Booting(c)' = Booting(c) /\ VmOf(c)' = VmOf(c)
  BY <1>1 DEF vars, local, Coming, InTransaction, Committed, Booting, VmOf, FirstStuck
<1>3. ASSUME NEW n \in VmName, vms'[n] # "absent"
      PROVE  Names(Coming', n) \/ InBoot(n)'
  <2>1. CASE Booting(p) /\ n = VmOf(p) /\ s \notin {"start", "clone"}
    <3>1. p \in Cli /\ step'[p] = s
      BY <1>1, <2>1 DEF Booting, HostInv
    <3> QED
      BY <1>2, <2>1, <3>1 DEF InBoot
  <2>2. CASE ~(Booting(p) /\ n = VmOf(p) /\ s \notin {"start", "clone"})
    <3>1. vms[n] # "absent"
      BY <1>3, <2>2
    <3>2. ~InBoot(n)
      BY <2>2, OneAtWork
    <3> QED
      BY <1>2, <3>1, <3>2 DEF HostInv
  <2> QED
    BY <2>1, <2>2
<1> QED
  BY <1>1, <1>3 DEF HostInv, VmState

\* An operation is over: whatever is still on the host is named.
LEMMA OverHost ==
  ASSUME HostInv, NEW p \in Proc, step' = [step EXCEPT ![p] = "start"], loose' = loose,
         vms' \in [VmName -> VmState],
         \A n \in VmName : vms'[n] # "absent" => Names(Coming', n)
  PROVE  HostInv'
  BY DEF HostInv, Steps, VmState

LEMMA OpHost ==
  ASSUME IInv, IInv', HostInv, Unbroken, NEW p \in Proc, TartOp(p)
  PROVE  HostInv'
<1> USE DEF Steps
<1>1. vms \in [VmName -> VmState]
  BY DEF HostInv, VmState
<1>2. ~Raises(p)
  BY DEF Raises, Over, VmOpRaises, Unbroken
<1>3. Working(p)
  BY <1>2 DEF TartOp, CollisionCheck, Clone, Spawn, WaitForIp, Cleanup, Stop, Stopping, Delete,
              Confirm, Booting, Working
<1>4. /\ \A n : InBoot(n) => Booting(p) /\ n = VmOf(p) /\ step[p] \notin {"start", "clone"}
      /\ \A n \in VmName : vms[n] # "absent" => Names(Coming, n) \/ InBoot(n)
  BY <1>3, OneAtWork DEF HostInv
\* The three ways in which an operation ends, whatever the host's VMs become.
<1>5. ASSUME Undone(p), UNCHANGED vms, step[p] = "start" \/ vms[VmOf(p)] = "absent"
      PROVE  HostInv'
  <2>1. \A n \in VmName : vms'[n] # "absent" => Names(Coming', n)
    BY <1>3, <1>4, <1>5, OpEndNames
  <2> QED
    BY <1>1, <1>5, <2>1, OverHost DEF Undone, Over
<1>6. ASSUME Removed(p), vms' \in [VmName -> VmState],
             \A n \in VmName : n = VmOf(p) => vms'[n] = "absent",
             \A n \in VmName : vms'[n] # "absent" => vms[n] # "absent"
      PROVE  HostInv'
  <2>1. \A n \in VmName : vms'[n] # "absent" => Names(Coming', n)
    BY <1>3, <1>4, <1>6, OpEndNames
  <2>2. step' = [step EXCEPT ![p] = "start"] /\ loose' = loose
    BY <1>6 DEF Removed, Undone, Over
  <2> QED
    BY <1>6, <2>1, <2>2, OverHost
<1>7. ASSUME GivesUp(p) \/ Booted(p), UNCHANGED vms
      PROVE  HostInv'
  <2>1. \A n \in VmName : vms'[n] # "absent" => Names(Coming', n)
    BY <1>3, <1>4, <1>7, OpEndNames DEF Booting
  <2>2. step' = [step EXCEPT ![p] = "start"] /\ loose' = loose
    BY <1>7 DEF GivesUp, Booted, Over
  <2> QED
    BY <1>1, <1>7, <2>1, <2>2, OverHost
<1>8. CASE CollisionCheck(p)
  <2>1. Booting(p) /\ step[p] = "start" /\ vms' = vms /\ (Then(p, "clone") \/ Undone(p))
    BY <1>8 DEF CollisionCheck
  <2>2. CASE Then(p, "clone")
    BY <1>1, <1>3, <2>1, <2>2, ThenHost
  <2> QED
    BY <1>5, <2>1, <2>2
<1>9. CASE Clone(p)
  <2>1. Booting(p) /\ Fails("clone", VmOf(p)) /\ (Then(p, "spawn") \/ Then(p, "cleanup"))
    BY <1>9 DEF Clone, Fails
  <2>2. /\ vms' \in [VmName -> VmState]
        /\ \A m \in VmName : m # VmOf(p) => vms'[m] = vms[m]
    BY <1>1, <2>1, EffectIs DEF Needs
  <2> QED
    BY <1>3, <2>1, <2>2, ThenHost
<1>10. CASE Spawn(p)
  <2>1. /\ Booting(p) /\ p \in Cli /\ vms' = vms /\ UNCHANGED vars
        /\ step' = [step EXCEPT ![p] = "ip"] /\ loose' = loose \cup {<<"run", VmOf(p)>>}
    BY <1>10 DEF Spawn, Booting
  <2>2. /\ Coming' = Coming /\ Booting(p)' /\ VmOf(p)' = VmOf(p)
        /\ step' \in [Proc -> Steps] /\ step'[p] = "ip"
    BY <2>1 DEF vars, local, Coming, InTransaction, Committed, Booting, VmOf, FirstStuck, HostInv
  <2>3. \A n \in VmName : vms'[n] # "absent" => Names(Coming', n) \/ InBoot(n)'
    BY <1>4, <2>1, <2>2 DEF InBoot
  <2>4. \A x \in loose' : x[1] = "run"
    BY <2>1 DEF HostInv
  <2> QED
    BY <2>1, <2>2, <2>3, <2>4 DEF HostInv
<1>11. CASE WaitForIp(p)
  <2>1. Booting(p) /\ vms' = vms /\ (Booted(p) \/ Then(p, "cleanup"))
    BY <1>11 DEF WaitForIp
  <2> QED
    BY <1>1, <1>3, <1>7, <2>1, ThenHost
<1>12. CASE Cleanup(p)
  <2>1. Booting(p) /\ vms' = vms
    BY <1>12 DEF Cleanup
  <2>2. CASE vms[VmOf(p)] = "absent" /\ Undone(p)
    BY <1>5, <2>1, <2>2
  <2>3. CASE Then(p, "stop")
    BY <1>1, <1>3, <2>1, <2>3, ThenHost
  <2> QED
    BY <1>7, <1>12, <2>1, <2>2, <2>3 DEF Cleanup
<1>13. CASE Stop(p)
  <2>1. CASE Fails("stop", VmOf(p)) /\ Then(p, "delete")
    <3>1. /\ vms' \in [VmName -> VmState]
          /\ \A m \in VmName : m # VmOf(p) => vms'[m] = vms[m]
          /\ \A m \in VmName : vms'[m] # "absent" => vms[m] # "absent"
      BY <1>1, <2>1, EffectIs DEF Needs
    <3> QED
      BY <1>3, <2>1, <3>1, ThenHost
  <2> QED
    BY <1>7, <1>13, <2>1 DEF Stop
<1>14. CASE Delete(p)
  <2>1. CASE Fails("delete", VmOf(p))
    <3>1. /\ vms' \in [VmName -> VmState]
          /\ \A m \in VmName : m # VmOf(p) => vms'[m] = vms[m]
          /\ \A m \in VmName : vms'[m] # "absent" => vms[m] # "absent"
          /\ TakesEffect("delete", VmOf(p)) => \A m \in VmName : m = VmOf(p) => vms'[m] = "absent"
      BY <1>1, <2>1, EffectIs DEF Needs, Leaves
    <3>2. CASE Then(p, "confirm")
      BY <1>3, <3>1, <3>2, ThenHost
    <3>3. CASE TakesEffect("delete", VmOf(p)) /\ Removed(p)
      BY <1>6, <3>1, <3>3
    <3>4. CASE GivesUp(p) /\ UNCHANGED vms
      BY <1>7, <3>4
    <3> QED
      BY <1>14, <3>2, <3>3, <3>4 DEF Delete
  <2> QED
    BY <1>7, <1>14, <2>1 DEF Delete, Fails
<1>15. CASE Confirm(p)
  <2>1. vms' = vms
    BY <1>15 DEF Confirm
  <2>2. CASE vms[VmOf(p)] = "absent" /\ Removed(p)
    BY <1>1, <1>6, <2>1, <2>2
  <2> QED
    BY <1>7, <1>15, <2>1, <2>2 DEF Confirm
<1> QED
  BY <1>2, <1>8, <1>9, <1>10, <1>11, <1>12, <1>13, <1>14, <1>15 DEF TartOp

\* While another process, or the clock, takes a step of the store, a boot under
\* way stays under way.
LEMMA QuietKeepsBooting ==
  ASSUME IInv, NEW c \in Cli, Booting(c),
         \/ \E d \in Cli : Invoke(d)
         \/ \E p \in Reaper : StartSweep(p) \/ Restart(p)
         \/ \E p \in Proc : Flock(p) \/ StoreStep(p)
         \/ Tick
  PROVE  Booting(c)' /\ VmOf(c)' = VmOf(c)
<1>1. pc[c] = "boot" /\ c \in Proc
  BY DEF Booting, Proc
<1>2. CASE Tick
  BY <1>1, <1>2 DEF Tick, local, Booting, VmOf
<1>3. ASSUME NEW p \in Proc, StepOf(p), p # c
      PROVE  Booting(c)' /\ VmOf(c)' = VmOf(c)
  <2>1. Same(c)
    BY <1>1, <1>3, OthersKeep DEF IInv
  <2> QED
    BY <1>1, <2>1 DEF Same, Booting, VmOf
<1>4. ASSUME Invoke(c) \/ StartSweep(c) \/ Restart(c) \/ Flock(c)
      PROVE  FALSE
  BY <1>1, <1>4 DEF Invoke, StartSweep, Restart, Flock
<1>5. ASSUME StoreStep(c)
      PROVE  FALSE
  BY <1>1, <1>5 DEF StoreStep, AcquireRefused, LeaseRunner, Exit, ReleaseRefused, ReleaseRunner,
     ReaperFails, Reap, SweepEnds, EndSweep, Load, LoadFails, CreateTemp, WriteTemp, Replace, SaveFails,
     AtAcquire, AtRelease
<1>6. ASSUME NEW p \in Proc, \/ p \in Cli /\ Invoke(p)
                             \/ p \in Reaper /\ (StartSweep(p) \/ Restart(p))
                             \/ Flock(p) \/ StoreStep(p)
      PROVE  StepOf(p)
  BY <1>6 DEF StepOf, StoreStep, CliStep, ReaperStep, Transact
<1> QED
  BY <1>2, <1>3, <1>4, <1>5, <1>6 DEF Proc

LEMMA QuietKeepsBoots ==
  ASSUME IInv, UNCHANGED step,
         \/ \E c \in Cli : Invoke(c)
         \/ \E p \in Reaper : StartSweep(p) \/ Restart(p)
         \/ \E p \in Proc : Flock(p) \/ StoreStep(p)
         \/ Tick
  PROVE  \A n : InBoot(n) => InBoot(n)'
BY QuietKeepsBooting DEF InBoot

LEMMA HostStep ==
  ASSUME IInv, IInv', HostInv, Unbroken, [TartNext]_tartvars
  PROVE  HostInv'
<1>1. CASE UNCHANGED tartvars
  BY <1>1 DEF tartvars, host, vars, local, HostInv, Names, Coming, InTransaction, Committed,
              InBoot, Booting, VmOf, FirstStuck
<1>2. CASE /\ UNCHANGED host
           /\ \/ \E c \in Cli : Invoke(c)
              \/ \E p \in Reaper : StartSweep(p) \/ Restart(p)
              \/ \E p \in Proc : Flock(p) \/ StoreStep(p)
              \/ Tick
  <2>1. SameVms /\ UNCHANGED host
    BY <1>2, QuietKeepsVms
  <2>2. UNCHANGED step
    BY <2>1 DEF host
  <2>3. \A n : InBoot(n) => InBoot(n)'
    BY <1>2, <2>2, QuietKeepsBoots
  <2> QED
    BY <2>1, <2>3 DEF HostInv, SameVms, Names, host
<1>3. ASSUME NEW p \in Proc, TartOp(p)
      PROVE  HostInv'
  BY <1>3, OpHost
<1>4. ASSUME NEW p \in Proc, KillMfm(p)
      PROVE  FALSE
  BY <1>4 DEF KillMfm, Kill, Unbroken
<1>5. CASE LooseEnds \/ VmExits
  <2>1. PICK cmd, n : cmd \in {"run", "stop"} /\ Fails(cmd, n)
    BY <1>5 DEF LooseEnds, VmExits, Fails, HostInv
  <2>2. /\ vms' \in [VmName -> VmState]
        /\ \A m \in VmName : vms'[m] # "absent" => vms[m] # "absent"
    BY <2>1, EffectIs DEF Needs, HostInv, VmState
  <2>3. UNCHANGED <<vars, step>> /\ loose' \subseteq loose
    BY <1>5 DEF LooseEnds, VmExits
  <2>4. Coming' = Coming /\ \A m : InBoot(m)' = InBoot(m)
    BY <2>3 DEF vars, local, Coming, InTransaction, Committed, InBoot, Booting, VmOf, FirstStuck
  <2> QED
    BY <2>2, <2>3, <2>4 DEF HostInv, VmState
<1> QED
  BY <1>1, <1>2, <1>3, <1>4, <1>5 DEF TartNext

\* "The VM is not forgotten": as long as no process is killed and nothing but a
\* TartError is raised, every VM on the host has a record that names it whenever
\* nobody is at work, for any number of commands, sweeps, runners and VM names.
THEOREM NoVmIsForgotten ==
  ASSUME Unbroken
  PROVE  TartSpec => []NoForgottenVm
<1>1. TartInit => HostInv
  BY DEF TartInit, HostInv, Steps
<1>2. IInv /\ IInv' /\ HostInv /\ [TartNext]_tartvars => HostInv'
  BY HostStep
<1>3. IInv /\ HostInv => NoForgottenVm
  <2> SUFFICES ASSUME IInv, HostInv, lock = Nobody, NEW n \in VmName, vms[n] # "absent"
               PROVE  \E r \in Runner : Committed[r].vm = n
    BY DEF NoForgottenVm
  <2>1. Coming = Committed
    BY ComingIs
  <2>2. ~InBoot(n)
    BY StoreAssumption DEF InBoot, Booting, IInv, LockInv, Holding, Proc
  <2> QED
    BY <2>1, <2>2 DEF HostInv, Names
<1>4. TartSpec => []IInv
  BY TartIsStore, Invariance, PTL
<1> QED
  BY <1>1, <1>2, <1>3, <1>4, PTL DEF TartSpec

------------------------------------------------------------------------------
(* A name leaves the file only after its VM *)

\* What is about to lose its name is gone from the host, and nobody but a boot
\* makes a VM again.
GoneInv ==
  /\ vms \in [VmName -> VmState]
  /\ \A x \in loose : x[1] \in DOMAIN Needs \ {"clone"}
  /\ \A r \in Runner :
       Committed[r].vm # NoVm /\ Coming[r].vm # Committed[r].vm => vms[Committed[r].vm] = "absent"

\* The end of a VM operation takes no name from a record but that of its VM.
LEMMA OpEndRecords ==
  ASSUME IInv, IInv', NEW p \in Proc
  PROVE  /\ BootVm(p) => \A r \in Runner : Coming'[r].vm = Coming[r].vm \/ Committed[r].vm = NoVm
         /\ TeardownVm(p) \/ SweepVm(p) =>
              \A r \in Runner : Coming'[r].vm = Coming[r].vm \/ Coming[r].vm = VmOf(p)
         /\ \/ TeardownVm(p) /\ mem'[p][target[p]].vm # NoVm
            \/ SweepVm(p) /\ mem' = mem
            => SameVms
<1>1. ASSUME BootVm(p)
      PROVE  \A r \in Runner : Coming'[r].vm = Coming[r].vm \/ Committed[r].vm = NoVm
  <2>1. pc[p] = "boot" /\ p \in Cli
    BY <1>1 DEF BootVm, IInv, RoleInv
  <2>2. Coherent(Committed[target[p]]) /\ Committed[target[p]].state = "ready" /\ target[p] \in Runner
    BY <2>1 DEF IInv, Pend, CanLease, TInv, Shape
  <2>3. Committed[target[p]].vm = NoVm
    BY <2>2 DEF Coherent
  <2>4. \E m, s : Settle(p, m, s)
    BY <1>1, Zenon DEF BootVm
  <2>5. /\ Coming = mem[p] /\ mem[p] \in Fleet /\ Coming' = mem'[p]
        /\ \E m : mem'[p] = [mem[p] EXCEPT ![target[p]] = m]
    BY <2>1, <2>4, SettleNames
  <2> QED
    BY <2>3, <2>5 DEF Fleet
<1>2. ASSUME TeardownVm(p)
      PROVE  /\ \A r \in Runner : Coming'[r].vm = Coming[r].vm \/ Coming[r].vm = VmOf(p)
             /\ mem'[p][target[p]].vm # NoVm => SameVms
  <2> DEFINE r == mem[p][target[p]]
  <2>1. pc[p] = "teardown" /\ p \in Cli /\ VmOf(p) = r.vm
    BY <1>2 DEF TeardownVm, IInv, RoleInv, VmOf
  <2>2. Settle(p, DetachVm(r), "success") \/ Settle(p, Quarantine(r), "failure")
    BY <1>2 DEF TeardownVm
  <2>3. /\ target[p] \in Runner /\ Coming = mem[p] /\ mem[p] \in Fleet /\ Coming' = mem'[p]
        /\ \/ mem'[p] = [mem[p] EXCEPT ![target[p]] = DetachVm(r)]
           \/ mem'[p] = [mem[p] EXCEPT ![target[p]] = Quarantine(r)]
    BY <2>1, <2>2, SettleNames
  <2>4. DetachVm(r).vm = NoVm /\ Quarantine(r).vm = r.vm
    BY <2>3 DEF Fleet, Record, DetachVm, Quarantine
  <2>5. \A x \in Runner : x # target[p] => Coming'[x].vm = Coming[x].vm
    BY <2>3 DEF Fleet
  <2>6. mem'[p][target[p]].vm # NoVm => Coming'[target[p]].vm = Coming[target[p]].vm
    BY <2>3, <2>4 DEF Fleet
  <2> QED
    BY <2>1, <2>3, <2>5, <2>6 DEF SameVms
<1>3. ASSUME SweepVm(p)
      PROVE  /\ \A r \in Runner : Coming'[r].vm = Coming[r].vm \/ Coming[r].vm = VmOf(p)
             /\ mem' = mem => SameVms
  <2>1. pc[p] = "sweep" /\ pc' = pc /\ VmOf(p) = mem[p][FirstStuck(p)].vm
    BY <1>3 DEF SweepVm, VmOf
  <2>2. InTransaction(p) /\ InTransaction(p)'
    BY <2>1 DEF InTransaction, Holding
  <2>3. mem[p] \in Fleet /\ Coming = mem[p] /\ Coming' = mem'[p]
    BY <2>2, ComingIs, ComingNext DEF IInv, TInv, Shape
  <2>4. PICK r \in todo[p] :
          /\ \A s \in todo[p] : Position[r] <= Position[s]
          /\ mem' = [mem EXCEPT ![p] = [mem[p] EXCEPT ![r] = DetachVm(mem[p][r])]] \/ mem' = mem
    BY <1>3 DEF SweepVm
  <2>5. todo[p] \subseteq Runner
    BY DEF IInv, TInv, TypeOK
  <2>6. FirstStuck(p) = r
    <3>1. \A x \in todo[p] : (\A s \in todo[p] : Position[x] <= Position[s]) => x = r
      BY <2>4, <2>5, PickAssumption
    <3> QED
      BY <2>4, <3>1 DEF FirstStuck
  <2>7. mem'[p] = [mem[p] EXCEPT ![r] = DetachVm(mem[p][r])] \/ mem'[p] = mem[p]
    BY <2>4 DEF IInv, TInv, TypeOK
  <2> QED
    BY <2>1, <2>3, <2>6, <2>7 DEF SameVms, Fleet
<1> QED
  BY <1>1, <1>2, <1>3

\* A step that leaves the host alone leaves file and names alone, or ends a
\* transaction: what is to come is then what is in the file.
LEMMA QuietSettles ==
  ASSUME IInv, IInv', NEW p \in Proc,
         Invoke(p) \/ StartSweep(p) \/ Restart(p) \/ Flock(p) \/ StoreStep(p)
           \/ VmOpRaises(p) \/ Kill(p)
  PROVE  (SameVms /\ Committed' = Committed) \/ Coming' = Committed'
<1> USE DEF Goto, IInv, TInv, TypeOK
<1>1. CASE Replace(p) \/ VmOpRaises(p) \/ SaveFails(p)
  <2>1. pc[p] \in Holding /\ pc'[p] \in {"exit", "failed"} /\ lock' = lock
    BY <1>1 DEF Replace, VmOpRaises, SaveFails, Holding
  <2>2. lock = p
    BY <2>1 DEF LockInv
  <2> QED
    BY <2>1, <2>2, ComingNext DEF InTransaction
<1>2. CASE Kill(p)
  <2>1. /\ lock' = (IF lock = p THEN Nobody ELSE lock) /\ file' = file
        /\ \A q \in Proc : q # p => pc'[q] = pc[q] /\ mem'[q] = mem[q]
    BY <1>2 DEF Kill, Leave, Unlocked
  <2> QED
    BY <2>1, ComingNext DEF SameVms, Coming, InTransaction, Committed
<1>3. CASE \/ Invoke(p) \/ StartSweep(p) \/ Restart(p) \/ Flock(p)
           \/ Load(p) \/ LoadFails(p) \/ Exit(p) \/ EndSweep(p)
  <2>1. file' = file
    BY <1>3 DEF Invoke, StartSweep, Restart, Flock, Load, LoadFails, Exit, EndSweep
  <2> QED
    BY <1>3, <2>1, OutsideKeepsVms DEF Committed
<1>4. CASE \/ AcquireRefused(p) \/ ReleaseRefused(p) \/ ReaperFails(p)
           \/ LeaseRunner(p) \/ ReleaseRunner(p) \/ Reap(p)
           \/ SweepEnds(p) \/ CreateTemp(p) \/ WriteTemp(p)
  <2>1. file' = file
    BY <1>4 DEF AcquireRefused, ReleaseRefused, ReaperFails, LeaseRunner, ReleaseRunner, Reap,
                SweepEnds, CreateTemp, WriteTemp
  <2> QED
    BY <1>4, <2>1, InsideKeepsVms DEF Committed
<1> QED
  BY <1>1, <1>2, <1>3, <1>4 DEF StoreStep

\* No VM comes up, and nothing is about to lose its name that was not before.
LEMMA GoneKept ==
  ASSUME IInv, GoneInv, vms' \in [VmName -> VmState],
         \A x \in loose' : x[1] \in DOMAIN Needs \ {"clone"},
         \A n \in VmName : vms'[n] # "absent" => vms[n] # "absent",
         (SameVms /\ Committed' = Committed) \/ Coming' = Committed'
  PROVE  GoneInv'
<1>1. \A r \in Runner : Committed[r].vm # NoVm => Committed[r].vm \in VmName
  BY LoadedTyped DEF IInv, Fleet, Record
<1> QED
  BY <1>1 DEF GoneInv, SameVms, VmState

\* The operation of p is over, and the VM is gone if its name is.
LEMMA OverGone ==
  ASSUME IInv, IInv', GoneInv, NEW p \in Proc, Working(p), loose' = loose,
         vms' \in [VmName -> VmState],
         \A n \in VmName : vms'[n] # "absent" => vms[n] # "absent",
         \/ BootVm(p)
         \/ TeardownVm(p) /\ mem'[p][target[p]].vm # NoVm
         \/ SweepVm(p) /\ mem' = mem
         \/ (TeardownVm(p) \/ SweepVm(p)) /\ \A n \in VmName : n = VmOf(p) => vms'[n] = "absent"
  PROVE  GoneInv'
<1>1. file' = file
  <2>1. CASE BootVm(p) \/ TeardownVm(p)
    BY <2>1, Zenon DEF BootVm, TeardownVm, Settle
  <2>2. CASE SweepVm(p)
    BY <2>2 DEF SweepVm
  <2> QED
    BY <2>1, <2>2
<1>2. Committed' = Committed /\ \A r \in Runner : Committed[r].vm # NoVm => Committed[r].vm \in VmName
  BY <1>1, LoadedTyped DEF Committed, IInv, Fleet, Record
<1>3. ASSUME NEW r \in Runner, Committed[r].vm # NoVm, Coming'[r].vm # Committed[r].vm
      PROVE  vms'[Committed[r].vm] = "absent"
  <2>1. CASE Coming'[r].vm = Coming[r].vm
    BY <1>2, <1>3, <2>1 DEF GoneInv
  <2>2. CASE Coming'[r].vm # Coming[r].vm
    <3>1. Coming[r].vm = VmOf(p) /\ \A n \in VmName : n = VmOf(p) => vms'[n] = "absent"
      BY <1>3, <2>2, OpEndRecords DEF SameVms
    <3>2. CASE Coming[r].vm = Committed[r].vm
      BY <1>2, <1>3, <3>1, <3>2
    <3>3. CASE Coming[r].vm # Committed[r].vm
      <4>1. vms[Committed[r].vm] = "absent"
        BY <1>3, <3>3 DEF GoneInv
      <4> QED
        BY <1>2, <1>3, <4>1
    <3> QED
      BY <3>2, <3>3
  <2> QED
    BY <2>1, <2>2
<1> QED
  BY <1>2, <1>3 DEF GoneInv, VmState

LEMMA OpGone ==
  ASSUME IInv, IInv', GoneInv, NEW p \in Proc, TartOp(p)
  PROVE  GoneInv'
<1>1. vms \in [VmName -> VmState] /\ \A x \in loose : x[1] \in DOMAIN Needs \ {"clone"}
  BY DEF GoneInv
<1>2. CASE Raises(p)
  BY <1>1, <1>2, QuietSettles, GoneKept DEF Raises, Over
<1>3. ASSUME Working(p), NEW s, Then(p, s), vms' \in [VmName -> VmState],
             \A n \in VmName : vms'[n] # "absent" => vms[n] # "absent"
      PROVE  GoneInv'
  <2>1. UNCHANGED <<vars, loose>>
    BY <1>3 DEF Then
  <2>2. SameVms /\ Committed' = Committed
    BY <2>1 DEF vars, local, Coming, InTransaction, Committed, SameVms
  <2> QED
    BY <1>1, <1>3, <2>1, <2>2, GoneKept
<1>4. ASSUME Working(p), UNCHANGED vms, Undone(p) \/ Booted(p) \/ GivesUp(p)
      PROVE  GoneInv'
  <2>1. loose' = loose
    BY <1>4 DEF Undone, Booted, GivesUp, Over
  <2>2. \/ BootVm(p)
        \/ TeardownVm(p) /\ mem'[p][target[p]].vm # NoVm
        \/ SweepVm(p) /\ mem' = mem
    BY <1>4 DEF Undone, Booted, GivesUp, Over
  <2> QED
    BY <1>1, <1>4, <2>1, <2>2, OverGone
<1>5. ASSUME Working(p), Removed(p), vms' \in [VmName -> VmState],
             \A n \in VmName : n = VmOf(p) => vms'[n] = "absent",
             \A n \in VmName : vms'[n] # "absent" => vms[n] # "absent"
      PROVE  GoneInv'
  <2>1. loose' = loose /\ (BootVm(p) \/ TeardownVm(p) \/ SweepVm(p))
    BY <1>5 DEF Removed, Undone, Over
  <2> QED
    BY <1>5, <2>1, OverGone
<1>6. CASE CollisionCheck(p) \/ WaitForIp(p) \/ Cleanup(p)
  <2>1. Working(p) /\ UNCHANGED vms
    BY <1>6 DEF CollisionCheck, WaitForIp, Cleanup, Booting, Working
  <2>2. (\E s : Then(p, s)) \/ Undone(p) \/ Booted(p) \/ GivesUp(p)
    BY <1>6 DEF CollisionCheck, WaitForIp, Cleanup
  <2> QED
    BY <1>1, <1>3, <1>4, <2>1, <2>2
<1>7. CASE Clone(p)
  <2>1. p \in Cli /\ pc[p] = "boot" /\ Fails("clone", VmOf(p)) /\ UNCHANGED <<vars, loose>>
    BY <1>7 DEF Clone, Booting, Fails, Then
  <2>2. vms' \in [VmName -> VmState]
    BY <1>1, <2>1, EffectIs DEF Needs
  <2>3. \A r \in Runner : Coming[r].vm = Committed[r].vm
    <3>1. Coming = mem[p]
      BY <2>1, ComingIs DEF InTransaction, Holding
    <3>2. PICK t \in 0 .. now :
            mem[p] = [Committed EXCEPT ![target[p]] =
                        Lease(Committed[target[p]], req[p].job, req[p].ttl, t)]
      BY <2>1 DEF IInv, Pend
    <3>3. Committed \in Fleet
      BY LoadedTyped DEF IInv
    <3> QED
      BY <3>1, <3>2, <3>3 DEF Lease, Fleet, Record
  <2>4. UNCHANGED <<Coming, Committed>>
    BY <2>1 DEF vars, local, Coming, InTransaction, Committed
  <2> QED
    BY <1>1, <2>1, <2>2, <2>3, <2>4 DEF GoneInv, VmState
<1>8. CASE Spawn(p)
  <2>1. UNCHANGED <<vars, vms>> /\ loose' = loose \cup {<<"run", VmOf(p)>>}
    BY <1>8 DEF Spawn
  <2>2. SameVms /\ Committed' = Committed
    BY <2>1 DEF vars, local, Coming, InTransaction, Committed, SameVms
  <2>3. \A x \in loose' : x[1] \in DOMAIN Needs \ {"clone"}
    BY <1>1, <2>1 DEF Needs
  <2> QED
    BY <1>1, <2>1, <2>2, <2>3, GoneKept
<1>9. CASE Stop(p)
  <2>1. Working(p)
    BY <1>9 DEF Stop, Stopping
  <2>2. CASE Fails("stop", VmOf(p)) /\ Then(p, "delete")
    BY <1>1, <1>3, <2>1, <2>2, EffectIs DEF Needs
  <2> QED
    BY <1>4, <1>9, <2>1, <2>2 DEF Stop
<1>10. CASE Delete(p)
  <2>1. Working(p)
    BY <1>10 DEF Delete
  <2>2. CASE Fails("delete", VmOf(p)) /\ Then(p, "confirm")
    BY <1>1, <1>3, <2>1, <2>2, EffectIs DEF Needs
  <2>3. CASE TakesEffect("delete", VmOf(p)) /\ Removed(p)
    <3>1. Fails("delete", VmOf(p))
      BY <2>3 DEF Fails
    <3>2. /\ vms' \in [VmName -> VmState]
          /\ \A n \in VmName : vms'[n] # "absent" => vms[n] # "absent"
          /\ \A n \in VmName : n = VmOf(p) => vms'[n] = "absent"
      BY <1>1, <2>3, <3>1, EffectIs DEF Needs, Leaves
    <3> QED
      BY <1>5, <2>1, <2>3, <3>2
  <2> QED
    BY <1>4, <1>10, <2>1, <2>2, <2>3 DEF Delete
<1>11. CASE Confirm(p)
  <2>1. Working(p) /\ UNCHANGED vms
    BY <1>11 DEF Confirm
  <2> QED
    BY <1>1, <1>4, <1>5, <1>11, <2>1 DEF Confirm
<1> QED
  BY <1>2, <1>6, <1>7, <1>8, <1>9, <1>10, <1>11 DEF TartOp

\* A reaper clones nothing.
StepInv == step \in [Proc -> Steps] /\ \A p \in Reaper : step[p] # "clone"

LEMMA StepStep ==
  ASSUME StepInv, [TartNext]_tartvars
  PROVE  StepInv'
<1> USE DEF StepInv, Steps
<1>1. ASSUME NEW p \in Proc, NEW s \in Steps, s = "clone" => p \in Cli,
             step' = [step EXCEPT ![p] = s]
      PROVE  StepInv'
  BY <1>1, StoreAssumption
<1>2. ASSUME NEW p \in Proc, TartOp(p)
      PROVE  StepInv'
  <2>1. \E s \in Steps : step' = [step EXCEPT ![p] = s] /\ (s = "clone" => p \in Cli)
    BY <1>2, Zenon DEF TartOp, CollisionCheck, Clone, Spawn, WaitForIp, Cleanup, Stop, Delete, Confirm,
                Raises, Then, Booted, Undone, Removed, GivesUp, Over, Booting
  <2> QED
    BY <1>1, <2>1
<1>3. ASSUME NEW p \in Proc, KillMfm(p)
      PROVE  StepInv'
  BY <1>1, <1>3 DEF KillMfm
<1>4. CASE UNCHANGED step
  BY <1>4
<1> QED
  BY <1>2, <1>3, <1>4 DEF TartNext, tartvars, host, LooseEnds, VmExits

LEMMA GoneStep ==
  ASSUME IInv, IInv', GoneInv, StepInv, Mortal \cap Cli = {}, [TartNext]_tartvars
  PROVE  GoneInv'
<1>0. \A p \in Reaper : step[p] # "clone"
  BY DEF StepInv
<1>1. vms \in [VmName -> VmState] /\ \A x \in loose : x[1] \in DOMAIN Needs \ {"clone"}
  BY DEF GoneInv
<1>2. CASE UNCHANGED tartvars \/ (Tick /\ UNCHANGED host)
  <2>1. UNCHANGED <<file, lock, pc, mem, vms, loose>>
    BY <1>2 DEF tartvars, host, vars, local, Tick
  <2>2. SameVms /\ Committed' = Committed
    BY <2>1 DEF Coming, InTransaction, Committed, SameVms
  <2> QED
    BY <1>1, <2>1, <2>2, GoneKept
<1>3. ASSUME NEW p \in Proc, UNCHANGED host,
             Invoke(p) \/ StartSweep(p) \/ Restart(p) \/ Flock(p) \/ StoreStep(p)
      PROVE  GoneInv'
  <2>1. UNCHANGED <<vms, loose>>
    BY <1>3 DEF host
  <2>2. (SameVms /\ Committed' = Committed) \/ Coming' = Committed'
    BY <1>3, QuietSettles
  <2> QED
    BY <1>1, <2>1, <2>2, GoneKept
<1>4. ASSUME NEW p \in Proc, TartOp(p)
      PROVE  GoneInv'
  BY <1>4, OpGone
<1>5. ASSUME NEW p \in Proc, KillMfm(p)
      PROVE  GoneInv'
  <2>1. Kill(p) /\ UNCHANGED vms /\ loose' = loose \cup Waiting(p) /\ p \notin Cli
    BY <1>5 DEF KillMfm, Kill
  <2>2. \A x \in Waiting(p) : x[1] \in {"stop", "delete"}
    <3>1. Working(p) => pc[p] = "sweep" /\ p \in Reaper
      BY <2>1 DEF Working
    <3> QED
      BY <3>1, <1>0 DEF Waiting
  <2>3. \A x \in loose' : x[1] \in DOMAIN Needs \ {"clone"}
    BY <1>1, <2>1, <2>2 DEF Needs
  <2>4. (SameVms /\ Committed' = Committed) \/ Coming' = Committed'
    BY <2>1, QuietSettles
  <2> QED
    BY <1>1, <2>1, <2>3, <2>4, GoneKept
<1>6. CASE LooseEnds \/ VmExits
  <2>1. PICK cmd, n : cmd \in DOMAIN Needs \ {"clone"} /\ Fails(cmd, n)
    BY <1>1, <1>6 DEF LooseEnds, VmExits, Fails, Needs
  <2>2. /\ vms' \in [VmName -> VmState]
        /\ \A m \in VmName : vms'[m] # "absent" => vms[m] # "absent"
    BY <1>1, <2>1, EffectIs
  <2>3. UNCHANGED vars /\ loose' \subseteq loose
    BY <1>6 DEF LooseEnds, VmExits
  <2>4. SameVms /\ Committed' = Committed
    BY <2>3 DEF vars, local, Coming, InTransaction, Committed, SameVms
  <2> QED
    BY <1>1, <2>2, <2>3, <2>4, GoneKept
<1> QED
  BY <1>2, <1>3, <1>4, <1>5, <1>6 DEF TartNext, Proc

\* A VM name leaves the file only when the VM is gone from the host: whatever
\* Tart does, whatever is raised or not saved, and however often sweeps are
\* killed, as long as no lease command is killed in the middle of its clone.
THEOREM DetachedVmsAreGone ==
  ASSUME Mortal \cap Cli = {}
  PROVE  TartSpec => DetachedVmIsGone
<1> DEFINE Act == \A r \in Runner :
                    LET n == Committed[r].vm
                    IN  n # NoVm /\ Loaded(file')[r].vm # n => vms[n] = "absent"
<1>1. TartInit => GoneInv /\ StepInv
  <2> SUFFICES ASSUME TartInit
               PROVE  GoneInv /\ StepInv
    OBVIOUS
  <2>1. Coming = Committed
    BY DEF TartInit, Init, Coming
  <2>2. vms \in [VmName -> VmState] /\ loose = {}
    BY DEF TartInit, VmState
  <2>3. StepInv
    BY DEF TartInit, StepInv, Steps, Proc
  <2> QED
    BY <2>1, <2>2, <2>3 DEF GoneInv
<1>2. IInv /\ IInv' /\ GoneInv /\ StepInv /\ [TartNext]_tartvars => GoneInv' /\ StepInv'
  BY GoneStep, StepStep
<1>3. IInv /\ IInv' /\ GoneInv /\ [TartNext]_tartvars => [Act]_tartvars
  <2> SUFFICES ASSUME IInv, GoneInv, [TartNext]_tartvars, NEW r \in Runner,
                      Committed[r].vm # NoVm, Committed'[r].vm # Committed[r].vm
               PROVE  vms[Committed[r].vm] = "absent"
    BY DEF Committed
  <2>1. file' # file
    BY DEF Committed
  <2>2. PICK p \in Proc : Replace(p)
    <3>1. [Next]_vars
      BY StepRefines
    <3>2. Next /\ ~Tick
      BY <2>1, <3>1 DEF vars, Tick
    <3> QED
      BY <2>1, <3>2, NextSteps, OnlyReplaceWrites
  <2>3. Committed' = mem[p] /\ InTransaction(p)
    BY <2>2, ReplaceCommits DEF Replace, InTransaction, Holding
  <2>4. Coming = mem[p]
    BY <2>3, ComingIs
  <2> QED
    BY <2>3, <2>4 DEF GoneInv
<1>4. TartSpec => []IInv
  BY TartIsStore, Invariance, PTL
<1>5. TartSpec => [][Act]_tartvars
  BY <1>1, <1>2, <1>3, <1>4, PTL DEF TartSpec
<1> QED
  BY <1>5 DEF DetachedVmIsGone

------------------------------------------------------------------------------
(* A held VM is deleted by its own release *)

\* No two runners share a VM name (VmNamesProofs says when).
NamesDiffer == \A r, s \in Runner, j, k \in Job : VmNameFor[r][j] = VmNameFor[s][k] => r = s

Owns(r, n) == \E j \in Job : VmNameFor[r][j] = n

OwnInv == \A r \in Runner : Committed[r].vm = NoVm \/ Owns(r, Committed[r].vm)

\* The runner is leased no more, or only until the next sweep.
Past(r) == Committed[r].state # "ready" /\ (Committed[r].state = "leased" => Overdue(Committed[r], now))

\* A delete that a killed sweep left behind can hit no lease that is in force.
LooseInv ==
  /\ \A x \in loose : x[1] \in DOMAIN Needs /\ x = <<x[1], x[2]>>
  /\ \A x \in loose : x[1] = "delete" => \A r \in Runner : Owns(r, x[2]) => Past(r)

\* Only a grant or a failed boot gives a record a VM, and its own.
LEMMA OwnStep ==
  ASSUME IInv, OwnInv, [Next]_vars
  PROVE  OwnInv'
<1> DEFINE Kept(r) == Committed'[r].vm \in {NoVm, Committed[r].vm} \/ Owns(r, Committed'[r].vm)
<1> SUFFICES ASSUME NEW r \in Runner, ~Kept(r)
             PROVE  FALSE
  BY DEF OwnInv, Owns
<1>1. Committed \in Fleet /\ Committed[r] \in Record
  BY LoadedTyped DEF IInv, TInv, Fleet
<1>2. PICK p \in Proc : Replace(p)
  <2>1. file' # file
    BY DEF Committed
  <2> QED
    BY <2>1, NextSteps, OnlyReplaceWrites DEF Tick, vars
<1>3. CASE p \in Cli
  <2> DEFINE old == Committed[target[p]]
             name(j) == VmNameFor[target[p]][j]
  <2>1. target[p] \in Runner /\ Outcome(p) /\ Committed' = mem[p]
    BY <1>2, <1>3, ReplaceCommits
  <2>2. old \in Record
    BY <1>1, <2>1 DEF Fleet
  <2>3. ASSUME NEW m, mem[p] = [Committed EXCEPT ![target[p]] = m],
               m.vm \in {NoVm, old.vm} \/ Owns(target[p], m.vm)
        PROVE  FALSE
    BY <1>1, <2>1, <2>3 DEF Fleet
  <2>4. \A j \in Job, ttl \in Ttl, t \in 0 .. now :
          /\ Lease(old, j, ttl, t).vm = old.vm
          /\ AttachVm(Lease(old, j, ttl, t), name(j)).vm = name(j)
    BY <2>2 DEF Lease, AttachVm, Record
  <2>5. \A j \in Job : StrandVm(old, name(j)).vm = name(j)
    BY <2>2 DEF StrandVm, Quarantine, Record
  <2>6. DetachVm(Release(old)).vm = NoVm /\ Quarantine(old).vm = old.vm
    BY <2>2 DEF DetachVm, Release, Quarantine, Record
  <2>7. \A j \in Job : Owns(target[p], name(j))
    BY DEF Owns
  <2> HIDE DEF old
  <2>8. CASE Granted(Committed, mem[p], target[p], now)
    <3>1. PICK j \in Job, ttl \in Ttl, t \in 0 .. now :
            \/ mem[p] = [Committed EXCEPT ![target[p]] = Lease(old, j, ttl, t)]
            \/ mem[p] = [Committed EXCEPT ![target[p]] = AttachVm(Lease(old, j, ttl, t), name(j))]
      BY <2>8, Zenon DEF Granted, old
    <3>2. /\ Lease(old, j, ttl, t).vm = old.vm
          /\ Owns(target[p], AttachVm(Lease(old, j, ttl, t), name(j)).vm)
      BY <2>4, <2>7
    <3> QED
      BY <2>3, <3>1, <3>2
  <2>9. CASE mem[p] = Committed
    BY <2>1, <2>9
  <2>10. CASE Stranded(Committed, mem[p], target[p])
    <3>1. PICK j \in Job : mem[p] = [Committed EXCEPT ![target[p]] = StrandVm(old, name(j))]
      BY <2>10, Zenon DEF Stranded, old
    <3> QED
      BY <2>3, <2>5, <2>7, <3>1
  <2>11. CASE Finished(Committed, mem[p], target[p])
    <3>1. \/ mem[p] = [Committed EXCEPT ![target[p]] = DetachVm(Release(old))]
          \/ mem[p] = [Committed EXCEPT ![target[p]] = Quarantine(old)]
      BY <2>11, Zenon DEF Finished, old
    <3> QED
      BY <2>3, <2>6, <3>1
  <2> QED
    BY <2>1, <2>8, <2>9, <2>10, <2>11 DEF Outcome
<1>4. CASE p \notin Cli
  <2>1. Swept(Committed, Committed', {}, now)
    BY <1>2, <1>4, ReplaceCommits
  <2>2. PICK t \in 0 .. now, gone \in SUBSET Runner :
          Committed' = [x \in Runner |-> IF x \in gone THEN DetachVm(Reaped(Committed, t)[x])
                                                    ELSE Reaped(Committed, t)[x]]
    BY <2>1, Zenon DEF Swept
  <2>3. Committed'[r] \in {DetachVm(ReapOne(Committed[r], t)), ReapOne(Committed[r], t)}
    BY <2>2 DEF Reaped
  <2> QED
    BY <1>1, <2>3 DEF DetachVm, ReapOne, Quarantine, Record
<1> QED
  BY <1>3, <1>4

\* A lease that is over stays over.
LEMMA PastStays ==
  ASSUME IInv, [Next]_vars, NEW r \in Runner, Past(r)
  PROVE  Past(r)'
<1>1. Forward(Committed[r], Committed'[r])
  BY BookStepSound
<1>2. Committed[r] \in Record /\ Committed'[r] \in Record
  <2>1. Committed \in Fleet
    BY LoadedTyped DEF IInv
  <2>2. Committed' = Committed \/ \E p \in Proc : Replace(p)
    BY NextSteps, OnlyReplaceWrites DEF Tick, vars, Committed
  <2>3. Committed' \in Fleet
    BY <2>1, <2>2, ReplaceCommits
  <2> QED
    BY <2>1, <2>3 DEF Fleet
<1>3. now \in Nat /\ (now' = now \/ now' = now + 1)
  BY TimesTyped, NextSteps, OnlyReplaceWrites DEF IInv, TInv, Tick, vars
<1>4. Committed[r].state # "ready" /\ (Committed[r].state = "leased" => Overdue(Committed[r], now))
  BY DEF Past
<1>5. Committed'[r].state # "ready"
  BY <1>1, <1>2, <1>4 DEF Forward, Stage, Record, RunnerState
<1>6. ASSUME Committed'[r].state = "leased"
      PROVE  Overdue(Committed'[r], now')
  <2>1. Committed[r].state = "leased"
    BY <1>1, <1>2, <1>4, <1>6 DEF Forward, Stage, Record, RunnerState
  <2>2. Committed'[r].expires = Committed[r].expires
    BY <1>1, <1>6, <2>1 DEF Forward
  <2> QED
    BY <1>2, <1>3, <1>4, <1>6, <2>1, <2>2 DEF Overdue, Record
<1> QED
  BY <1>5, <1>6 DEF Past

\* A sweep always has a first VM to try: positions are numbers.
LEMMA FirstIsStuck ==
  ASSUME NEW p, todo[p] \subseteq Runner, todo[p] # {}
  PROVE  FirstStuck(p) \in todo[p]
<1> DEFINE T == {Position[r] : r \in todo[p]}
           Smaller == {ss \in Nat \X Nat : ss[1] < ss[2]}
<1>1. T \subseteq Nat /\ T # {}
  BY PickAssumption
<1>2. IsWellFoundedOn(Smaller, Nat)
  BY NatLessThanWellFounded DEF OpToRel
<1> HIDE DEF Smaller
<1>3. PICK x \in T : \A y \in T : ~(<<y, x>> \in Smaller)
  BY <1>1, <1>2, WFMin, Zenon
<1>4. \A y \in T : ~(y < x)
  BY <1>1, <1>3 DEF Smaller
<1>5. \E r \in todo[p] : \A s \in todo[p] : Position[r] <= Position[s]
  <2>1. PICK r \in todo[p] : x = Position[r]
    BY <1>3
  <2>2. \A s \in todo[p] : ~(Position[s] < Position[r])
    BY <1>4, <2>1
  <2> QED
    BY <2>2, PickAssumption
<1> QED
  BY <1>5 DEF FirstStuck

\* The VM that p works on is the one its lease gives back, one that no job has
\* yet, or one whose lease is over.
LEMMA WhoseVm ==
  ASSUME IInv, OwnInv, NamesDiffer, NEW p \in Proc, Working(p),
         NEW r \in Runner, Owns(r, VmOf(p))
  PROVE  /\ p \in Cli => \/ Committed[r].state = "ready"
                         \/ pc[p] = "teardown" /\ target[p] = r /\ req[p].job = Committed[r].job
         /\ p \notin Cli => Past(r)
<1>1. Pend(p) /\ Committed \in Fleet
  BY LoadedTyped DEF IInv
<1>2. \A s \in Runner : Owns(s, VmOf(p)) => s = r
  BY DEF Owns, NamesDiffer
<1>3. CASE pc[p] = "boot"
  <2>1. p \in Cli /\ target[p] \in Runner /\ CanLease(Committed[target[p]], req[p].job, req[p].ttl)
    BY <1>1, <1>3 DEF Pend, IInv, RoleInv, TInv, Shape
  <2>2. req[p].job \in Job
    BY <1>3 DEF IInv, TInv, Shape
  <2>3. Owns(target[p], VmOf(p))
    BY <1>3, <2>1, <2>2 DEF Owns, VmOf
  <2> QED
    BY <1>2, <2>1, <2>3 DEF CanLease
<1>4. CASE pc[p] = "teardown"
  <2> DEFINE s == target[p]
  <2>1. /\ p \in Cli /\ s \in Runner
        /\ CanRelease(Committed[s], req[p].job) /\ Committed[s].vm # NoVm
        /\ mem[p] = [Committed EXCEPT ![s] = Release(Committed[s])]
    BY <1>1, <1>4 DEF Pend, IInv, RoleInv, TInv, Shape
  <2>2. Release(Committed[s]).vm = Committed[s].vm
    BY <1>1, <2>1 DEF Release, Fleet, Record
  <2>3. VmOf(p) = Committed[s].vm
    BY <1>1, <1>4, <2>1, <2>2 DEF VmOf, Fleet
  <2>4. Owns(s, VmOf(p))
    BY <2>1, <2>3 DEF OwnInv
  <2> QED
    BY <1>2, <1>4, <2>1, <2>4 DEF CanRelease
<1>5. CASE pc[p] = "sweep"
  <2> DEFINE s == FirstStuck(p)
  <2>1. p \notin Cli /\ VmOf(p) = mem[p][s].vm /\ todo[p] # {} /\ p \in Reaper
    BY <1>5, Zenon DEF VmOf, IInv, RoleInv, Working
  <2>2. PICK t \in 0 .. now, gone \in SUBSET Runner :
          /\ gone \cap todo[p] = {}
          /\ \A x \in todo[p] : Stuck(Reaped(Committed, t)[x])
          /\ mem[p] = [x \in Runner |-> IF x \in gone THEN DetachVm(Reaped(Committed, t)[x])
                                                     ELSE Reaped(Committed, t)[x]]
    BY <1>1, <1>5, Zenon DEF Pend, Swept
  <2>3. s \in todo[p] /\ s \in Runner
    BY <2>1, FirstIsStuck DEF IInv, TInv, TypeOK
  <2>4. mem[p][s] = ReapOne(Committed[s], t) /\ Stuck(ReapOne(Committed[s], t))
    BY <2>2, <2>3 DEF Reaped
  <2>5. Committed[s] \in Record
    BY <1>1, <2>3 DEF Fleet
  <2>6. VmOf(p) = Committed[s].vm /\ Committed[s].vm # NoVm
    BY <2>1, <2>4, <2>5 DEF ReapOne, Quarantine, Stuck, Record
  <2>7. s = r
    BY <1>2, <2>3, <2>6 DEF OwnInv
  <2>8. now \in Nat /\ t \in Nat /\ t <= now
    BY TimesTyped DEF IInv, TInv
  <2>9. Committed[s].state = "quarantined" \/ Overdue(Committed[s], t)
    BY <2>4 DEF ReapOne, Stuck
  <2>10. Committed[s].state = "quarantined" \/ Overdue(Committed[s], now)
    BY <2>5, <2>8, <2>9 DEF Overdue, Record
  <2> QED
    BY <2>1, <2>7, <2>10 DEF Past, Overdue
<1> QED
  BY <1>3, <1>4, <1>5 DEF Working

\* A delete is left alone only by a killed sweep, which works on a VM whose
\* lease is over.
LEMMA LooseStep ==
  ASSUME IInv, OwnInv, LooseInv, NamesDiffer, Mortal \cap Cli = {}, [TartNext]_tartvars
  PROVE  LooseInv'
<1>1. ASSUME \A x \in loose' :
               /\ x[1] \in DOMAIN Needs /\ x = <<x[1], x[2]>>
               /\ x[1] = "delete" => \A r \in Runner : Owns(r, x[2]) => Past(r)
      PROVE  LooseInv'
  <2>1. [Next]_vars
    BY StepRefines
  <2>2. \A r \in Runner : Past(r) => Past(r)'
    BY <2>1, PastStays
  <2> QED
    BY <1>1, <2>2 DEF LooseInv, Owns
<1>2. ASSUME NEW p \in Proc, Spawn(p)
      PROVE  LooseInv'
  <2>1. loose' = loose \cup {<<"run", VmOf(p)>>}
    BY <1>2 DEF Spawn
  <2> QED
    BY <1>1, <2>1 DEF LooseInv, Needs
<1>3. ASSUME NEW p \in Proc, TartOp(p), ~Spawn(p)
      PROVE  loose' = loose
  BY <1>3, Zenon DEF TartOp, CollisionCheck, Clone, WaitForIp, Cleanup, Stop, Delete, Confirm, Raises,
              Then, Booted, Undone, Removed, GivesUp, Over
<1>4. ASSUME NEW p \in Proc, KillMfm(p)
      PROVE  LooseInv'
  <2>1. loose' = loose \cup Waiting(p) /\ p \notin Cli
    BY <1>4 DEF KillMfm, Kill
  <2>2. \A x \in Waiting(p) : /\ Working(p) /\ x[2] = VmOf(p)
                              /\ x[1] \in DOMAIN Needs /\ x = <<x[1], x[2]>>
    BY DEF Waiting, Needs
  <2>3. \A x \in Waiting(p) : \A r \in Runner : Owns(r, x[2]) => Past(r)
    BY <2>1, <2>2, WhoseVm
  <2> QED
    BY <1>1, <2>1, <2>2, <2>3 DEF LooseInv
<1>5. CASE loose' \subseteq loose
  BY <1>1, <1>5 DEF LooseInv
<1> QED
  BY <1>2, <1>3, <1>4, <1>5 DEF TartNext, tartvars, host, LooseEnds, VmExits

\* Only a delete takes a VM from the host.
LEMMA OnlyDeletesDelete ==
  ASSUME LooseInv, [TartNext]_tartvars, NEW n, vms[n] # "absent", vms'[n] = "absent"
  PROVE  \/ \E p \in Proc : Working(p) /\ VmOf(p) = n
         \/ <<"delete", n>> \in loose
<1>1. ASSUME NEW cmd \in DOMAIN Needs, NEW m, Fails(cmd, m)
      PROVE  cmd = "delete" /\ m = n
  <2>1. vms' # vms
    OBVIOUS
  <2>2. vms[m] = Needs[cmd] /\ vms' = [vms EXCEPT ![m] = Leaves[cmd]]
    BY <1>1, <2>1 DEF Fails, TakesEffect
  <2>3. m = n
    BY <2>2
  <2>4. n \in DOMAIN vms => Leaves[cmd] = "absent"
    BY <2>2, <2>3
  <2> QED
    BY <2>2, <2>3, <2>4 DEF Needs, Leaves
<1>2. ASSUME NEW p \in Proc, TartOp(p)
      PROVE  Working(p) /\ VmOf(p) = n
  <2>1. vms' # vms
    OBVIOUS
  <2>2. CASE Clone(p)
    <3>1. Fails("clone", VmOf(p))
      BY <2>2 DEF Clone, Fails
    <3> QED
      BY <1>1, <3>1 DEF Needs
  <2>3. CASE Stop(p)
    <3>1. Fails("stop", VmOf(p))
      BY <2>1, <2>3 DEF Stop
    <3> QED
      BY <1>1, <3>1 DEF Needs
  <2>4. CASE Delete(p)
    <3>1. Working(p) /\ Fails("delete", VmOf(p))
      BY <2>1, <2>4 DEF Delete, Fails
    <3> QED
      BY <1>1, <3>1 DEF Needs
  <2> QED
    BY <1>2, <2>1, <2>2, <2>3, <2>4 DEF TartOp, CollisionCheck, Spawn, WaitForIp, Cleanup, Confirm, Raises
<1>3. CASE LooseEnds
  <2>1. PICK x \in loose : Fails(x[1], x[2])
    BY <1>3 DEF LooseEnds
  <2>2. x[1] \in DOMAIN Needs /\ x = <<x[1], x[2]>>
    BY DEF LooseInv
  <2>3. x[1] = "delete" /\ x[2] = n
    BY <1>1, <2>1, <2>2
  <2> QED
    BY <2>2, <2>3
<1> QED
  BY <1>1, <1>2, <1>3 DEF TartNext, tartvars, host, KillMfm, VmExits, Fails, Needs


\* While a lease is in force nobody but its own release deletes its VM: no
\* sweep, no other command, and nothing a killed sweep left behind, as long as
\* no lease command is killed and the VM names of different runners differ.
THEOREM HeldVmsAreSafe ==
  ASSUME NamesDiffer, Mortal \cap Cli = {}
  PROVE  TartSpec => HeldVmIsSafe
<1> DEFINE Safe(r) ==
      LET old == Committed[r]
      IN  old.vm # NoVm /\ vms[old.vm] # "absent" /\ vms'[old.vm] = "absent" =>
            \/ old.state # "leased" \/ Overdue(old, now)
            \/ \E c \in Cli : pc[c] = "teardown" /\ target[c] = r /\ req[c].job = old.job
           Act == \A r \in Runner : Safe(r)
<1>1. TartInit => OwnInv /\ LooseInv
  <2> SUFFICES ASSUME TartInit
               PROVE  OwnInv /\ LooseInv
    OBVIOUS
  <2>1. Committed = FreshFleet
    BY DEF TartInit, Init, Committed, Loaded
  <2> QED
    BY <2>1 DEF TartInit, OwnInv, LooseInv, FreshFleet, Fresh
<1>2. IInv /\ OwnInv /\ LooseInv /\ [TartNext]_tartvars => OwnInv' /\ LooseInv'
  BY OwnStep, LooseStep, StepRefines
<1>3. IInv /\ OwnInv /\ LooseInv /\ [TartNext]_tartvars => [Act]_tartvars
  <2> SUFFICES ASSUME IInv, OwnInv, LooseInv, [TartNext]_tartvars, NEW r \in Runner,
                      Committed[r].vm # NoVm, vms[Committed[r].vm] # "absent",
                      vms'[Committed[r].vm] = "absent",
                      Committed[r].state = "leased", ~Overdue(Committed[r], now)
               PROVE  \E c \in Cli : /\ pc[c] = "teardown" /\ target[c] = r
                                     /\ req[c].job = Committed[r].job
    OBVIOUS
  <2>1. Owns(r, Committed[r].vm) /\ ~Past(r)
    BY DEF OwnInv, Past
  <2>2. <<"delete", Committed[r].vm>> \notin loose
    BY <2>1 DEF LooseInv
  <2>3. PICK p \in Proc : Working(p) /\ VmOf(p) = Committed[r].vm
    BY <2>2, OnlyDeletesDelete
  <2> QED
    BY <2>1, <2>3, WhoseVm
<1>4. TartSpec => []IInv
  BY TartIsStore, Invariance, PTL
<1>5. TartSpec => [][Act]_tartvars
  BY <1>1, <1>2, <1>3, <1>4, PTL DEF TartSpec
<1> QED
  BY <1>5 DEF HeldVmIsSafe

\* Records that share a VM have leases that vm_name_for gives one name.
OnlyNamesakesShare ==
  \A r, s \in Runner : Committed[r].vm # NoVm /\ Committed[s].vm = Committed[r].vm =>
    \E j, k \in Job : VmNameFor[r][j] = Committed[r].vm /\ VmNameFor[s][k] = Committed[r].vm

\* Every VM a record names is named as vm_name_for (tart.py:54-57) names it for
\* that runner and a job, through every grant, failed boot, sweep and kill.  So
\* two records share a VM only where vm_name_for gives two leases one name: the
\* name collision is the one way in which NameIsUnique can fail.
THEOREM OnlyNamesakesShareVms == TartSpec => []OnlyNamesakesShare
<1>1. Init => OwnInv
  <2> SUFFICES ASSUME Init
               PROVE  OwnInv
    OBVIOUS
  <2>1. Committed = FreshFleet
    BY DEF Init, Committed, Loaded
  <2> QED
    BY <2>1 DEF OwnInv, FreshFleet, Fresh
<1>2. IInv /\ OwnInv /\ [Next]_vars => OwnInv'
  BY OwnStep
<1>3. OwnInv => OnlyNamesakesShare
  BY DEF OwnInv, Owns, OnlyNamesakesShare
<1> QED
  BY <1>1, <1>2, <1>3, TartIsStore, Invariance, PTL DEF Spec

\* The names as vm_name_for makes them of the texts of runner and job.
CONSTANTS SafeChar, Dash, Dot, Prefix, MaxLen

Text == INSTANCE VmNamesProofs

\* The VM names are those of vm_name_for, for ids it need not change, and the
\* runners' ids differ but have one length.
NamedByText(runnerId, jobId) ==
  /\ \A r \in Runner, j \in Job :
       /\ Text!Fits(runnerId[r], jobId[j])
       /\ VmNameFor[r][j] = Text!vm_name_for(runnerId[r], jobId[j])
  /\ \A r, s \in Runner :
       /\ Len(runnerId[r]) = Len(runnerId[s])
       /\ runnerId[r] = runnerId[s] => r = s

\* For a fleet like the sample fleet, vm_name_for keeps the promise of its
\* docstring (tart.py:54-57): different runners never get one name.
LEMMA TextNamesDiffer ==
  ASSUME Text!NameAssumption, NEW runnerId, NEW jobId, NamedByText(runnerId, jobId)
  PROVE  NamesDiffer
BY Text!NameIsUniqueForIdsOfOneLength DEF NamesDiffer, NamedByText

\* So where runner ids have one length, as in the sample fleet, and no lease
\* command is killed, no VM is deleted under a job that holds it and no two
\* records share one, by what vm_name_for does and not by assumption.
THEOREM HeldVmsAreSafeByName ==
  ASSUME Text!NameAssumption, NEW runnerId, NEW jobId, NamedByText(runnerId, jobId),
         Mortal \cap Cli = {}
  PROVE  TartSpec => HeldVmIsSafe /\ []NameIsUnique
<1>1. NamesDiffer
  BY TextNamesDiffer
<1>2. OnlyNamesakesShare => NameIsUnique
  BY <1>1 DEF OnlyNamesakesShare, NamesDiffer, NameIsUnique
<1>3. TartSpec => HeldVmIsSafe
  BY <1>1, HeldVmsAreSafe
<1> QED
  BY <1>2, <1>3, OnlyNamesakesShareVms, PTL

------------------------------------------------------------------------------
(* No VM is lost sight of *)

\* Only a boot clones, and every command that runs on names a VM.
WorkInv ==
  /\ TartTypeOK
  /\ \A p \in Proc : step[p] = "clone" => Booting(p)

\* An acquire is cut short once it may have made its VM.
CutShort ==
  \E c \in Cli : /\ req[c] \in Acquires /\ pc[c] \in {"boot", "save", "write", "replace"}
                 /\ pc'[c] \in {"failed", "idle"}

LEMMA KnownIs ==
  ASSUME NEW n
  PROVE  /\ Known(n) <=> /\ <<"clone", n>> \notin loose
                         /\ vms[n] = "absent" \/ Names(Coming, n) \/ InBoot(n)
         /\ Known(n)' <=> /\ <<"clone", n>> \notin loose'
                          /\ vms'[n] = "absent" \/ Names(Coming', n) \/ InBoot(n)'
BY DEF Known, Names, InBoot

\* What is about to be saved by any process but an acquire names no VM that
\* the file does not name.
LEMMA SavesNoNewName ==
  ASSUME IInv, NEW p \in Proc, InTransaction(p),
         ~(p \in Cli /\ req[p] \in Acquires /\ pc[p] \in {"boot", "save", "write", "replace"})
  PROVE  \A r \in Runner : mem[p][r].vm \in {NoVm, Committed[r].vm}
<1>1. Pend(p) /\ Committed \in Fleet
  BY LoadedTyped DEF IInv
<1>2. \A r \in Runner : Committed[r] \in Record
  BY <1>1 DEF Fleet
<1>3. ASSUME NEW m, NEW x, m.vm \in {NoVm, Committed[x].vm}, mem[p] = [Committed EXCEPT ![x] = m]
      PROVE  \A r \in Runner : mem[p][r].vm \in {NoVm, Committed[r].vm}
  BY <1>1, <1>3 DEF Fleet
<1>4. ASSUME NEW left, Swept(Committed, mem[p], left, now)
      PROVE  \A r \in Runner : mem[p][r].vm \in {NoVm, Committed[r].vm}
  <2>1. PICK t \in 0 .. now, gone \in SUBSET Runner :
          mem[p] = [x \in Runner |-> IF x \in gone THEN DetachVm(Reaped(Committed, t)[x])
                                                   ELSE Reaped(Committed, t)[x]]
    BY <1>4, Zenon DEF Swept
  <2>2. ASSUME NEW r \in Runner
        PROVE  mem[p][r] \in {DetachVm(ReapOne(Committed[r], t)), ReapOne(Committed[r], t)}
    BY <2>1 DEF Reaped
  <2> QED
    BY <1>2, <2>2 DEF DetachVm, ReapOne, Quarantine, Record
<1>5. CASE pc[p] = "loaded"
  BY <1>1, <1>5 DEF Pend
<1>6. CASE pc[p] = "boot"
  BY <1>6 DEF IInv, RoleInv, TInv, Shape
<1>7. CASE pc[p] = "teardown"
  <2>1. target[p] \in Runner /\ mem[p] = [Committed EXCEPT ![target[p]] = Release(Committed[target[p]])]
    BY <1>1, <1>7 DEF Pend, IInv, TInv, Shape
  <2>2. Release(Committed[target[p]]).vm = Committed[target[p]].vm
    BY <1>2, <2>1 DEF Release, Record
  <2> QED
    BY <1>3, <2>1, <2>2
<1>8. CASE pc[p] = "sweep"
  BY <1>1, <1>4, <1>8 DEF Pend
<1>9. CASE pc[p] \in Saving /\ p \notin Cli
  BY <1>1, <1>4, <1>9 DEF Pend
<1>10. CASE pc[p] \in Saving /\ p \in Cli
  <2> DEFINE x == target[p]
  <2>1. x \in Runner /\ Outcome(p) /\ req[p] \notin Acquires
    BY <1>1, <1>10 DEF Pend, Saving
  <2>2. mem[p] = Committed \/ Finished(Committed, mem[p], x)
    BY <2>1 DEF Outcome
  <2>3. CASE Finished(Committed, mem[p], x)
    <3>1. \/ mem[p] = [Committed EXCEPT ![x] = DetachVm(Release(Committed[x]))]
          \/ mem[p] = [Committed EXCEPT ![x] = Quarantine(Committed[x])]
      BY <2>3, Zenon DEF Finished
    <3>2. /\ DetachVm(Release(Committed[x])).vm = NoVm
          /\ Quarantine(Committed[x]).vm = Committed[x].vm
      BY <1>2, <2>1 DEF DetachVm, Release, Quarantine, Record
    <3>3. CASE mem[p] = [Committed EXCEPT ![x] = DetachVm(Release(Committed[x]))]
      BY <1>3, <3>2, <3>3
    <3>4. CASE mem[p] = [Committed EXCEPT ![x] = Quarantine(Committed[x])]
      BY <1>3, <3>2, <3>4
    <3> QED
      BY <3>1, <3>3, <3>4
  <2> QED
    BY <2>2, <2>3
<1> QED
  BY <1>5, <1>6, <1>7, <1>8, <1>9, <1>10 DEF InTransaction, Holding, Saving

\* A command or sweep that raises, fails to save or is killed drops no name
\* but those an acquire has made up.
LEMMA EndDropsNoName ==
  ASSUME IInv, IInv', NEW p \in Proc, VmOpRaises(p) \/ SaveFails(p) \/ Kill(p), ~CutShort,
         NEW n \in VmName, Names(Coming, n)
  PROVE  Names(Coming', n)
<1> USE DEF Goto, IInv, TInv, TypeOK
<1>1. /\ file' = file /\ pc'[p] \in {"failed", "idle", "down"} /\ (p \in Cli => pc'[p] # "down")
      /\ \A q \in Proc : q # p => pc'[q] = pc[q] /\ mem'[q] = mem[q]
      /\ lock' = lock \/ lock' = (IF lock = p THEN Nobody ELSE lock)
  BY DEF VmOpRaises, SaveFails, Kill, Leave, Unlocked, local, RoleInv
<1>2. Committed' = Committed
  BY <1>1 DEF Committed
<1>3. CASE lock # p
  <2>1. lock' = lock /\ (lock \in Proc => pc'[lock] = pc[lock] /\ mem'[lock] = mem[lock])
    BY <1>1, <1>3
  <2>2. Coming' = Coming
    BY <1>2, <2>1 DEF Coming, InTransaction
  <2> QED
    BY <2>2
<1>4. CASE lock = p
  <2>1. ~InTransaction(p)' /\ lock' \in {p, Nobody}
    <3>1. pc'[p] \notin Holding \ {"locked", "exit", "failed"}
      BY <1>1 DEF Holding
    <3> QED
      BY <1>1, <1>4, <3>1 DEF InTransaction
  <2>2. Coming' = Committed'
    BY <2>1, ComingNext
  <2>3. CASE InTransaction(p)
    <3>1. \A r \in Runner : mem[p][r].vm \in {NoVm, Committed[r].vm}
      BY <1>1, <2>3, SavesNoNewName DEF CutShort
    <3>2. Coming = mem[p]
      BY <2>3, ComingIs
    <3> QED
      BY <1>2, <2>2, <3>1, <3>2, LifecycleAssumption DEF Names
  <2>4. CASE ~InTransaction(p)
    <3>1. Coming = Committed
      BY <1>4, <2>4, ComingIs
    <3> QED
      BY <1>2, <2>2, <3>1
  <2> QED
    BY <2>3, <2>4
<1> QED
  BY <1>3, <1>4

\* Whoever is at work is at work on a VM.
LEMMA WorkingOnVm ==
  ASSUME IInv, NEW p \in Proc, Working(p)
  PROVE  VmOf(p) \in VmName
<1>1. Pend(p) /\ \A r \in Runner : Committed[r] \in Record
  BY LoadedTyped DEF IInv, Fleet
<1>2. CASE pc[p] = "boot"
  BY <1>2, StoreAssumption DEF VmOf, IInv, TInv, Shape
<1>3. CASE pc[p] = "teardown"
  <2> DEFINE r == target[p]
  <2>1. /\ r \in Runner /\ Committed[r].vm # NoVm /\ Committed \in Fleet
        /\ mem[p] = [Committed EXCEPT ![r] = Release(Committed[r])]
    BY <1>1, <1>3, LoadedTyped DEF Pend, IInv, TInv, Shape
  <2>2. Release(Committed[r]).vm = Committed[r].vm /\ Committed[r].vm \in VmName
    BY <1>1, <2>1 DEF Release, Record
  <2> QED
    BY <1>3, <2>1, <2>2 DEF VmOf, Fleet
<1>4. CASE pc[p] = "sweep"
  <2> DEFINE r == FirstStuck(p)
  <2>1. VmOf(p) = mem[p][r].vm /\ r \in todo[p] /\ r \in Runner
    BY <1>4, FirstIsStuck, Zenon DEF VmOf, Working, IInv, RoleInv, TInv, TypeOK
  <2>2. PICK t \in 0 .. now, gone \in SUBSET Runner :
          /\ gone \cap todo[p] = {}
          /\ \A x \in todo[p] : Stuck(Reaped(Committed, t)[x])
          /\ mem[p] = [x \in Runner |-> IF x \in gone THEN DetachVm(Reaped(Committed, t)[x])
                                                     ELSE Reaped(Committed, t)[x]]
    BY <1>1, <1>4, Zenon DEF Pend, Swept
  <2>3. mem[p][r] = ReapOne(Committed[r], t) /\ Stuck(ReapOne(Committed[r], t))
    BY <2>1, <2>2 DEF Reaped
  <2> QED
    BY <1>1, <2>1, <2>3 DEF ReapOne, Quarantine, Stuck, Record
<1> QED
  BY <1>2, <1>3, <1>4 DEF Working

\* An operation on a VM holds the lock.
LEMMA OpHolds ==
  ASSUME IInv, NEW p \in Proc, TartOp(p)
  PROVE  lock = p /\ (Working(p) \/ Raises(p))
<1>1. Working(p) \/ Raises(p)
  BY DEF TartOp, CollisionCheck, Clone, Spawn, WaitForIp, Cleanup, Stop, Stopping, Delete,
         Confirm, Booting, Working
<1>2. Raises(p) => pc[p] \in Holding
  BY DEF Raises, Over, VmOpRaises, Holding
<1>3. Working(p) => pc[p] \in Holding
  BY DEF Working, Holding
<1> QED
  BY <1>1, <1>2, <1>3 DEF IInv, LockInv

\* What an operation does to the host.
LEMMA OpTyped ==
  ASSUME IInv, TartTypeOK, NEW p \in Proc, TartOp(p)
  PROVE  TartTypeOK'
<1> USE DEF TartTypeOK, Steps
<1>1. step' \in [Proc -> Steps]
  <2>1. \E s \in Steps : step' = [step EXCEPT ![p] = s]
    BY Zenon DEF TartOp, CollisionCheck, Clone, Spawn, WaitForIp, Cleanup, Stop, Delete, Confirm,
                Raises, Then, Booted, Undone, Removed, GivesUp, Over
  <2> QED
    BY <2>1
<1>2. vms' \in [VmName -> VmState]
  <2>1. vms' = vms \/ \E cmd \in DOMAIN Needs : Fails(cmd, VmOf(p))
    BY Zenon DEF TartOp, CollisionCheck, Clone, Spawn, WaitForIp, Cleanup, Stop, Delete, Confirm,
                Raises, Fails, Needs
  <2> QED
    BY <2>1, EffectIs DEF VmState
<1>3. loose' \subseteq (DOMAIN Needs) \X VmName
  <2>1. CASE Spawn(p)
    <3>1. VmOf(p) \in VmName
      BY <2>1, WorkingOnVm DEF Spawn, Booting, Working
    <3> QED
      BY <2>1, <3>1 DEF Spawn, Needs
  <2>2. CASE ~Spawn(p)
    <3>1. loose' = loose
      BY <2>2, Zenon DEF TartOp, CollisionCheck, Clone, WaitForIp, Cleanup, Stop, Delete, Confirm,
              Raises, Then, Booted, Undone, Removed, GivesUp, Over
    <3> QED
      BY <3>1
  <2> QED
    BY <2>1, <2>2
<1> QED
  BY <1>1, <1>2, <1>3 DEF VmState

LEMMA WorkInit == TartInit => WorkInv
<1>1. DOMAIN Needs \subseteq DOMAIN Needs /\ "start" # "clone"
  OBVIOUS
<1> QED
  BY <1>1 DEF TartInit, WorkInv, TartTypeOK, Steps

LEMMA WorkStep ==
  ASSUME IInv, WorkInv, [TartNext]_tartvars
  PROVE  WorkInv'
<1>1. TartTypeOK /\ \A q \in Proc : step[q] = "clone" => q \in Cli /\ Booting(q)
  BY DEF WorkInv, Booting
<1>2. CASE UNCHANGED tartvars
  BY <1>1, <1>2 DEF tartvars, host, vars, local, WorkInv, TartTypeOK, Booting
<1>3. CASE /\ UNCHANGED host
           /\ \/ \E c \in Cli : Invoke(c)
              \/ \E p \in Reaper : StartSweep(p) \/ Restart(p)
              \/ \E p \in Proc : Flock(p) \/ StoreStep(p)
              \/ Tick
  <2>1. \A q \in Proc : step'[q] = "clone" => Booting(q)'
    BY <1>1, <1>3, QuietKeepsBooting DEF host
  <2> QED
    BY <1>1, <1>3, <2>1 DEF host, WorkInv, TartTypeOK
<1>4. ASSUME NEW p \in Proc, TartOp(p)
      PROVE  WorkInv'
  <2>1. lock = p
    BY <1>4, OpHolds
  <2>2. ASSUME NEW q \in Proc, step'[q] = "clone"
        PROVE  Booting(q)'
    <3>1. PICK s \in Steps : /\ step' = [step EXCEPT ![p] = s]
                             /\ s = "clone" => Booting(p) /\ UNCHANGED vars
      BY <1>4, Zenon DEF TartOp, CollisionCheck, Clone, Spawn, WaitForIp, Cleanup, Stop, Delete,
                  Confirm, Raises, Then, Booted, Undone, Removed, GivesUp, Over, Steps
    <3>2. CASE q = p
      <4>1. s = "clone"
        BY <1>1, <2>2, <3>1, <3>2 DEF TartTypeOK
      <4> QED
        BY <3>1, <3>2, <4>1 DEF vars, Booting
    <3>3. CASE q # p
      <4>1. step[q] = "clone"
        BY <1>1, <2>2, <3>1, <3>3 DEF TartTypeOK
      <4>2. lock = q
        BY <1>1, <4>1 DEF Booting, IInv, LockInv, Holding
      <4> QED
        BY <2>1, <3>3, <4>2
    <3> QED
      BY <3>2, <3>3
  <2> QED
    BY <1>1, <1>4, <2>2, OpTyped DEF WorkInv
<1>5. ASSUME NEW p \in Proc, KillMfm(p)
      PROVE  WorkInv'
  <2>1. /\ Kill(p) /\ UNCHANGED vms /\ step' = [step EXCEPT ![p] = "start"]
        /\ loose' = loose \cup Waiting(p)
    BY <1>5 DEF KillMfm
  <2>2. Waiting(p) \subseteq (DOMAIN Needs) \X VmName
    BY WorkingOnVm DEF Waiting, Needs
  <2>3. TartTypeOK'
    BY <1>1, <2>1, <2>2 DEF TartTypeOK, Steps
  <2>4. ASSUME NEW q \in Proc, step'[q] = "clone"
        PROVE  Booting(q)'
    <3>1. q # p /\ Booting(q)
      BY <1>1, <2>1, <2>4 DEF TartTypeOK
    <3>2. Same(q)
      BY <2>1, <3>1, OthersKeep DEF StepOf, IInv
    <3> QED
      BY <3>1, <3>2 DEF Same, Booting
  <2> QED
    BY <2>3, <2>4 DEF WorkInv
<1>6. CASE LooseEnds \/ VmExits
  <2>1. UNCHANGED <<vars, step>> /\ loose' \subseteq loose
    BY <1>6 DEF LooseEnds, VmExits
  <2>2. \E cmd \in DOMAIN Needs, n \in VmName : Fails(cmd, n)
    BY <1>1, <1>6 DEF LooseEnds, VmExits, Fails, Needs, TartTypeOK
  <2>3. vms' \in [VmName -> VmState]
    BY <1>1, <2>2, EffectIs DEF TartTypeOK, VmState
  <2> QED
    BY <1>1, <2>1, <2>3 DEF vars, WorkInv, TartTypeOK, VmState, Booting
<1> QED
  BY <1>2, <1>3, <1>4, <1>5, <1>6 DEF TartNext

\* What is kept of the host is typed, however commands, sweeps and kills
\* interleave.
THEOREM TartTyped == TartSpec => []TartTypeOK
<1>1. WorkInv => TartTypeOK
  BY DEF WorkInv
<1>2. IInv /\ WorkInv /\ [TartNext]_tartvars => WorkInv'
  BY WorkStep
<1>3. TartSpec => []IInv
  BY TartIsStore, Invariance, PTL
<1> QED
  BY <1>1, <1>2, <1>3, WorkInit, PTL DEF TartSpec

\* An operation goes on: the VM it makes is the one it boots.
LEMMA ThenKnown ==
  ASSUME IInv, TartTypeOK, NEW p \in Proc, Working(p), NEW s, Then(p, s),
         NEW n, Known(n),
         vms'[n] # "absent" => vms[n] # "absent" \/ (Booting(p) /\ n = VmOf(p)),
         Booting(p) => s \notin {"start", "clone"} \/ (vms' = vms /\ step[p] = "start")
  PROVE  Known(n)'
<1>1. UNCHANGED <<vars, loose>> /\ step' = [step EXCEPT ![p] = s] /\ step'[p] = s
  BY DEF Then, TartTypeOK
<1>2. Coming' = Coming /\ \A c \in Cli : Booting(c)' = Booting(c) /\ VmOf(c)' = VmOf(c)
  BY <1>1 DEF vars, local, Coming, InTransaction, Committed, Booting, VmOf, FirstStuck
<1>3. CASE Booting(p) /\ n = VmOf(p) /\ s \notin {"start", "clone"}
  <2>1. InBoot(n)'
    BY <1>1, <1>2, <1>3 DEF InBoot, Booting
  <2> QED
    BY <1>1, <2>1, KnownIs
<1>4. CASE ~(Booting(p) /\ n = VmOf(p) /\ s \notin {"start", "clone"}) /\ vms'[n] # "absent"
  <2>1. vms[n] # "absent" /\ ~InBoot(n)
    BY <1>4, OneAtWork
  <2> QED
    BY <1>1, <1>2, <2>1, KnownIs
<1> QED
  BY <1>1, <1>3, <1>4, KnownIs

\* No clone is left alone, and what is still on the host is named.
LEMMA OverKnown ==
  ASSUME NEW n, Known(n), loose' = loose, vms'[n] # "absent" => Names(Coming', n)
  PROVE  Known(n)'
BY KnownIs

LEMMA OpKnown ==
  ASSUME IInv, IInv', WorkInv, ~CutShort, NEW p \in Proc, TartOp(p), NEW n \in VmName, Known(n)
  PROVE  Known(n)'
<1>1. TartTypeOK /\ vms \in [VmName -> VmState]
  BY DEF WorkInv, TartTypeOK, VmState
<1>2. vms[n] # "absent" => Names(Coming, n) \/ InBoot(n)
  BY KnownIs
<1>3. CASE Raises(p)
  <2>1. VmOpRaises(p) /\ vms' = vms /\ loose' = loose
    BY <1>3 DEF Raises, Over
  <2>2. lock = p /\ pc'[p] = "failed"
    BY <2>1 DEF VmOpRaises, Goto, IInv, LockInv, Holding, TInv, TypeOK
  <2>3. ~InBoot(n)
    <3>1. ASSUME NEW c \in Cli, Booting(c)
          PROVE  FALSE
      <4>1. c = p
        BY <2>2, <3>1 DEF Booting, IInv, LockInv, Holding, Proc
      <4> QED
        BY <2>2, <3>1, <4>1 DEF CutShort, Booting, IInv, TInv, Shape
    <3> QED
      BY <3>1 DEF InBoot
  <2> QED
    BY <1>2, <2>1, <2>3, EndDropsNoName, OverKnown
<1>4. ASSUME ~Raises(p)
      PROVE  Working(p) /\ (InBoot(n) => Booting(p) /\ n = VmOf(p) /\ step[p] \notin {"start", "clone"})
  BY <1>4, OpHolds, OneAtWork
\* The ways in which an operation ends, whatever the host's VMs become.
<1>5. ASSUME Working(p), Undone(p), UNCHANGED vms, step[p] = "start" \/ vms[VmOf(p)] = "absent"
      PROVE  Known(n)'
  <2>1. vms'[n] # "absent" => Names(Coming', n)
    BY <1>2, <1>5, OneAtWork, OpEndNames
  <2> QED
    BY <1>5, <2>1, OverKnown DEF Undone, Over
<1>6. ASSUME Working(p), Removed(p), n = VmOf(p) => vms'[n] = "absent",
             vms'[n] # "absent" => vms[n] # "absent"
      PROVE  Known(n)'
  <2>1. vms'[n] # "absent" => Names(Coming', n)
    BY <1>2, <1>6, OneAtWork, OpEndNames
  <2>2. loose' = loose
    BY <1>6 DEF Removed, Undone, Over
  <2> QED
    BY <2>1, <2>2, OverKnown
<1>7. ASSUME Working(p), GivesUp(p) \/ Booted(p), UNCHANGED vms
      PROVE  Known(n)'
  <2>1. vms'[n] # "absent" => Names(Coming', n)
    BY <1>2, <1>7, OneAtWork, OpEndNames DEF Booting
  <2>2. loose' = loose
    BY <1>7 DEF GivesUp, Booted, Over
  <2> QED
    BY <1>7, <2>1, <2>2, OverKnown
<1>8. CASE CollisionCheck(p)
  <2>1. Booting(p) /\ Working(p) /\ step[p] = "start" /\ vms' = vms /\ (Then(p, "clone") \/ Undone(p))
    BY <1>8 DEF CollisionCheck, Booting, Working
  <2>2. CASE Then(p, "clone")
    BY <1>1, <2>1, <2>2, ThenKnown
  <2> QED
    BY <1>5, <2>1, <2>2
<1>9. CASE Clone(p)
  <2>1. /\ Booting(p) /\ Working(p) /\ Fails("clone", VmOf(p))
        /\ Then(p, "spawn") \/ Then(p, "cleanup")
    BY <1>9 DEF Clone, Fails, Booting, Working
  <2>2. n # VmOf(p) => vms'[n] = vms[n]
    BY <1>1, <2>1, EffectIs DEF Needs
  <2> QED
    BY <1>1, <2>1, <2>2, ThenKnown
<1>10. CASE Spawn(p)
  <2>1. /\ Booting(p) /\ Working(p) /\ p \in Cli /\ vms' = vms /\ UNCHANGED vars
        /\ step' = [step EXCEPT ![p] = "ip"] /\ loose' = loose \cup {<<"run", VmOf(p)>>}
    BY <1>10 DEF Spawn, Booting, Working
  <2>2. /\ Coming' = Coming /\ Booting(p)' /\ VmOf(p)' = VmOf(p) /\ step'[p] = "ip"
    BY <1>1, <2>1 DEF vars, local, Coming, InTransaction, Committed, Booting, VmOf, FirstStuck,
       TartTypeOK
  <2>3. InBoot(n) => InBoot(n)'
    BY <2>1, <2>2, OneAtWork DEF InBoot
  <2> QED
    BY <2>1, <2>2, <2>3, KnownIs
<1>11. CASE WaitForIp(p)
  <2>1. Booting(p) /\ Working(p) /\ vms' = vms /\ (Booted(p) \/ Then(p, "cleanup"))
    BY <1>11 DEF WaitForIp, Booting, Working
  <2> QED
    BY <1>1, <1>7, <2>1, ThenKnown
<1>12. CASE Cleanup(p)
  <2>1. Booting(p) /\ Working(p) /\ vms' = vms
    BY <1>12 DEF Cleanup, Booting, Working
  <2>2. CASE vms[VmOf(p)] = "absent" /\ Undone(p)
    BY <1>5, <2>1, <2>2
  <2>3. CASE Then(p, "stop")
    BY <1>1, <2>1, <2>3, ThenKnown
  <2> QED
    BY <1>7, <1>12, <2>1, <2>2, <2>3 DEF Cleanup
<1>13. CASE Stop(p)
  <2>1. Working(p)
    BY <1>13 DEF Stop, Stopping
  <2>2. CASE Fails("stop", VmOf(p)) /\ Then(p, "delete")
    <3>1. vms'[n] # "absent" => vms[n] # "absent"
      BY <1>1, <2>2, EffectIs DEF Needs
    <3> QED
      BY <1>1, <2>1, <2>2, <3>1, ThenKnown
  <2> QED
    BY <1>7, <1>13, <2>1, <2>2 DEF Stop
<1>14. CASE Delete(p)
  <2>1. Working(p)
    BY <1>14 DEF Delete
  <2>2. ASSUME Fails("delete", VmOf(p))
        PROVE  /\ vms'[n] # "absent" => vms[n] # "absent"
               /\ TakesEffect("delete", VmOf(p)) /\ n = VmOf(p) => vms'[n] = "absent"
    BY <1>1, <2>2, EffectIs DEF Needs, Leaves
  <2>3. CASE Fails("delete", VmOf(p)) /\ Then(p, "confirm")
    BY <1>1, <2>1, <2>2, <2>3, ThenKnown
  <2>4. CASE TakesEffect("delete", VmOf(p)) /\ Removed(p)
    BY <1>6, <2>1, <2>2, <2>4 DEF Fails
  <2> QED
    BY <1>7, <1>14, <2>1, <2>3, <2>4 DEF Delete
<1>15. CASE Confirm(p)
  <2>1. Working(p) /\ vms' = vms
    BY <1>15 DEF Confirm
  <2>2. CASE vms[VmOf(p)] = "absent" /\ Removed(p)
    BY <1>6, <2>1, <2>2
  <2> QED
    BY <1>7, <1>15, <2>1, <2>2 DEF Confirm
<1> QED
  BY <1>3, <1>8, <1>9, <1>10, <1>11, <1>12, <1>13, <1>14, <1>15 DEF TartOp

\* A process that is killed takes no VM with it but the one it boots.
LEMMA KillKnown ==
  ASSUME IInv, IInv', WorkInv, ~CutShort, NEW p \in Proc, KillMfm(p), NEW n \in VmName, Known(n)
  PROVE  Known(n)'
<1>1. /\ Kill(p) /\ vms' = vms /\ step' = [step EXCEPT ![p] = "start"]
      /\ loose' = loose \cup Waiting(p)
  BY DEF KillMfm
<1>2. ~Booting(p)
  <2>1. p \in Cli => pc'[p] = "idle"
    BY <1>1 DEF Kill, Leave, Goto, IInv, TInv, TypeOK
  <2> QED
    BY <2>1 DEF CutShort, Booting, IInv, TInv, Shape, Proc
<1>3. <<"clone", n>> \notin loose'
  BY <1>1, <1>2, KnownIs DEF Waiting, WorkInv
<1>4. ASSUME InBoot(n)
      PROVE  InBoot(n)'
  <2>1. PICK c \in Cli : Booting(c) /\ step[c] \notin {"start", "clone"} /\ VmOf(c) = n
    BY <1>4 DEF InBoot
  <2>2. c \in Proc /\ c # p /\ step'[c] = step[c]
    BY <1>1, <1>2, <2>1 DEF Proc, WorkInv, TartTypeOK
  <2>3. Same(c)
    BY <1>1, <2>2, OthersKeep DEF StepOf, IInv
  <2> QED
    BY <2>1, <2>2, <2>3 DEF Same, Booting, VmOf, InBoot
<1> QED
  BY <1>1, <1>3, <1>4, EndDropsNoName, KnownIs

LEMMA KnownStep ==
  ASSUME IInv, IInv', WorkInv, ~CutShort, [TartNext]_tartvars, NEW n \in VmName, Known(n)
  PROVE  Known(n)'
<1>1. TartTypeOK /\ vms \in [VmName -> VmState]
  BY DEF WorkInv, TartTypeOK, VmState
<1>2. CASE UNCHANGED tartvars \/ LooseEnds \/ VmExits
  <2>1. UNCHANGED <<vars, step>> /\ loose' \subseteq loose
    BY <1>2 DEF tartvars, host, LooseEnds, VmExits
  <2>2. Coming' = Coming /\ InBoot(n)' = InBoot(n)
    BY <2>1 DEF vars, local, Coming, InTransaction, Committed, InBoot, Booting, VmOf, FirstStuck
  <2>3. CASE vms' = vms
    BY <2>1, <2>2, <2>3, KnownIs
  <2>4. ASSUME NEW cmd \in DOMAIN Needs, NEW m, Fails(cmd, m), cmd = "clone" => m # n
        PROVE  vms'[n] # "absent" => vms[n] # "absent"
    BY <1>1, <2>4, EffectIs
  <2>5. ASSUME LooseEnds
        PROVE  vms'[n] # "absent" => vms[n] # "absent"
    <3>1. PICK x \in loose : Fails(x[1], x[2])
      BY <2>5 DEF LooseEnds
    <3>2. x = <<x[1], x[2]>> /\ x[1] \in DOMAIN Needs
      BY <1>1 DEF TartTypeOK
    <3>3. x[1] = "clone" => x[2] # n
      BY <3>2, KnownIs
    <3> QED
      BY <2>4, <3>1, <3>2, <3>3
  <2>6. ASSUME VmExits
        PROVE  vms'[n] # "absent" => vms[n] # "absent"
    BY <2>4, <2>6 DEF VmExits, Fails, Needs
  <2> QED
    BY <1>2, <2>1, <2>2, <2>3, <2>5, <2>6, KnownIs DEF tartvars, host
<1>3. CASE /\ UNCHANGED host
           /\ \/ \E c \in Cli : Invoke(c)
              \/ \E p \in Reaper : StartSweep(p) \/ Restart(p)
              \/ \E p \in Proc : Flock(p) \/ StoreStep(p)
              \/ Tick
  <2>1. InBoot(n) => InBoot(n)'
    BY <1>3, QuietKeepsBoots DEF host
  <2>2. Names(Coming, n) => Names(Coming', n)
    <3>1. SameVms => (Names(Coming, n) => Names(Coming', n))
      BY DEF SameVms, Names
    <3>2. Tick => SameVms
      BY DEF Tick, local, SameVms, Coming, InTransaction, Committed
    <3>3. ASSUME NEW p \in Proc, SaveFails(p)
          PROVE  Names(Coming, n) => Names(Coming', n)
      BY <3>3, EndDropsNoName
    <3> QED
      BY <1>3, <3>1, <3>2, <3>3, OutsideKeepsVms, InsideKeepsVms DEF StoreStep, Proc
  <2> QED
    BY <1>3, <2>1, <2>2, KnownIs DEF host
<1>4. ASSUME NEW p \in Proc, TartOp(p) \/ KillMfm(p)
      PROVE  Known(n)'
  BY <1>4, OpKnown, KillKnown
<1> QED
  BY <1>2, <1>3, <1>4 DEF TartNext

\* A VM the program knows of stays known to it: no failed, timed-out or late
\* Tart command, no sweep, release, kill of a sweep or acquire on another VM
\* makes it forget one; only an acquire cut short does.
THEOREM VmsAreKnown == TartSpec => VmsStayKnown
<1> DEFINE Act == \A n \in VmName : Known(n) /\ ~ Known(n)' =>
                    \E c \in Cli :
                      /\ req[c] \in Acquires /\ pc[c] \in {"boot", "save", "write", "replace"}
                      /\ pc'[c] \in {"failed", "idle"}
<1>1. IInv /\ WorkInv /\ [TartNext]_tartvars => WorkInv'
  BY WorkStep
<1>2. IInv /\ IInv' /\ WorkInv /\ [TartNext]_tartvars => [Act]_tartvars
  BY KnownStep DEF CutShort
<1>3. TartSpec => []IInv
  BY TartIsStore, Invariance, PTL
<1>4. TartSpec => [][Act]_tartvars
  BY <1>1, <1>2, <1>3, WorkInit, PTL DEF TartSpec
<1> QED
  BY <1>4 DEF VmsStayKnown

------------------------------------------------------------------------------
(* Transactions come to an end *)

\* The steps of the store in a transaction only lead on.
LEMMA StoreStepGoesOn ==
  ASSUME IInv, NEW p \in Proc, lock = p, StoreStep(p)
  PROVE  GoesOn(p) /\ lock' = (IF AtEnd(p) THEN Nobody ELSE p)
<1>1. pc \in [Proc -> {"idle", "waiting", "down"} \cup Holding] /\ p # Nobody
  BY StoreAssumption DEF IInv, TInv, TypeOK
<1>2. ASSUME NEW l \in Holding, Goto(p, l), PcLeft[l] < PcLeft[pc[p]], UNCHANGED lock
      PROVE  GoesOn(p) /\ lock' = (IF AtEnd(p) THEN Nobody ELSE p)
  BY <1>1, <1>2 DEF Goto, GoesOn, AtEnd, Holding
<1>3. CASE AcquireRefused(p) \/ LeaseRunner(p) \/ ReleaseRefused(p) \/ ReleaseRunner(p)
  <2>1. pc[p] = "loaded" /\ UNCHANGED lock /\ \E l \in {"failed", "boot", "teardown", "save"} : Goto(p, l)
    BY <1>3 DEF AcquireRefused, LeaseRunner, ReleaseRefused, ReleaseRunner, AtAcquire, AtRelease
  <2> QED
    BY <1>2, <2>1 DEF PcLeft, Holding
<1>4. CASE ReaperFails(p) \/ Reap(p) \/ SweepEnds(p)
  <2>1. /\ UNCHANGED lock
        /\ \/ pc[p] = "loaded" /\ \E l \in {"failed", "sweep"} : Goto(p, l)
           \/ pc[p] = "sweep" /\ Goto(p, "save")
    BY <1>4 DEF ReaperFails, Reap, SweepEnds
  <2> QED
    BY <1>2, <2>1 DEF PcLeft, Holding
<1>5. CASE Load(p) \/ LoadFails(p) \/ CreateTemp(p) \/ WriteTemp(p) \/ Replace(p) \/ SaveFails(p)
  <2>1. /\ UNCHANGED lock
        /\ \/ pc[p] = "locked" /\ Goto(p, "loaded")
           \/ pc[p] = "save" /\ Goto(p, "write")
           \/ pc[p] = "write" /\ Goto(p, "replace")
           \/ pc[p] = "replace" /\ Goto(p, "exit")
           \/ pc[p] \in {"locked", "save", "write", "replace"} /\ Goto(p, "failed")
    BY <1>5 DEF Load, LoadFails, CreateTemp, WriteTemp, Replace, SaveFails
  <2> QED
    BY <1>2, <2>1 DEF PcLeft, Holding
<1>6. CASE Exit(p) \/ EndSweep(p)
  <2>1. pc[p] \in {"exit", "failed"} /\ \E l \in {"idle", "down"} : Leave(p, l)
    BY <1>6, Zenon DEF Exit, EndSweep
  <2>2. pc'[p] \in {"idle", "down"} /\ lock' = Nobody
    BY <1>1, <2>1 DEF Leave, Unlocked, Goto
  <2> QED
    BY <2>1, <2>2 DEF GoesOn, PcLeft, AtEnd
<1> QED
  BY <1>3, <1>4, <1>5, <1>6 DEF StoreStep

\* An operation runs its commands once, in their order; a sweep takes the VMs
\* it has to try one by one.
LEMMA OpGoesOn ==
  ASSUME IInv, TartTypeOK, NEW p \in Proc, TartOp(p)
  PROVE  GoesOn(p) /\ lock' = p /\ ~ AtEnd(p)
<1>1. /\ pc \in [Proc -> {"idle", "waiting", "down"} \cup Holding] /\ todo \in [Proc -> SUBSET Runner]
      /\ step \in [Proc -> Steps] /\ lock = p
  BY OpHolds DEF IInv, TInv, TypeOK, TartTypeOK
<1>2. pc[p] \in Holding /\ ("idle" \notin Holding /\ "down" \notin Holding)
  BY <1>1 DEF IInv, LockInv, Holding
<1>3. ASSUME NEW s \in Steps, Then(p, s), StepLeft[s] < StepLeft[step[p]]
      PROVE  GoesOn(p) /\ lock' = p /\ ~ AtEnd(p)
  <2>1. UNCHANGED <<pc, todo, lock>> /\ step'[p] = s
    BY <1>1, <1>3 DEF Then, vars, local
  <2> QED
    BY <1>1, <1>2, <1>3, <2>1 DEF GoesOn, AtEnd
<1>4. ASSUME BootVm(p) \/ TeardownVm(p)
      PROVE  GoesOn(p) /\ lock' = p /\ ~ AtEnd(p)
  <2>1. pc[p] \in {"boot", "teardown"} /\ Goto(p, "save") /\ lock' = lock
    BY <1>4 DEF BootVm, TeardownVm, Settle
  <2> QED
    BY <1>1, <2>1 DEF Goto, GoesOn, PcLeft, AtEnd
<1>5. ASSUME SweepVm(p)
      PROVE  GoesOn(p) /\ lock' = p /\ ~ AtEnd(p)
  <2>1. PICK r \in todo[p] : todo' = [todo EXCEPT ![p] = todo[p] \ {r}]
    BY <1>5 DEF SweepVm
  <2>2. UNCHANGED <<pc, lock>>
    BY <1>5 DEF SweepVm
  <2> QED
    BY <1>1, <1>2, <2>1, <2>2 DEF GoesOn, AtEnd
<1>6. CASE Raises(p)
  <2>1. pc[p] \in {"boot", "teardown", "sweep"} /\ Goto(p, "failed") /\ lock' = lock
    BY <1>6 DEF Raises, Over, VmOpRaises
  <2> QED
    BY <1>1, <2>1 DEF Goto, GoesOn, PcLeft, AtEnd
<1>7. CASE Spawn(p)
  <2>1. step[p] = "spawn" /\ step'[p] = "ip" /\ UNCHANGED <<pc, todo, lock>>
    BY <1>1, <1>7 DEF Spawn, vars, local
  <2> QED
    BY <1>1, <1>2, <2>1 DEF GoesOn, AtEnd, StepLeft
<1>8. \/ Raises(p) \/ Spawn(p) \/ BootVm(p) \/ TeardownVm(p) \/ SweepVm(p)
      \/ step[p] = "start" /\ \E s \in {"clone", "delete"} : Then(p, s)
      \/ step[p] = "clone" /\ \E s \in {"spawn", "cleanup"} : Then(p, s)
      \/ step[p] = "ip" /\ Then(p, "cleanup")
      \/ step[p] = "cleanup" /\ Then(p, "stop")
      \/ step[p] = "stop" /\ Then(p, "delete")
      \/ step[p] = "delete" /\ Then(p, "confirm")
  BY Zenon DEF TartOp, CollisionCheck, Clone, WaitForIp, Cleanup, Stop, Stopping, Delete, Confirm,
     Booted, Undone, Removed, GivesUp, Over
<1> QED
  BY <1>3, <1>4, <1>5, <1>6, <1>7, <1>8 DEF StepLeft, Steps

LEMMA LockGoesOn ==
  ASSUME IInv, WorkInv, [TartNext]_tartvars, NEW p \in Proc, lock = p
  PROVE  IF Waits(p) THEN lock' = p ELSE GoesOn(p) /\ lock' = (IF AtEnd(p) THEN Nobody ELSE p)
<1> DEFINE G == IF Waits(p) THEN lock' = p ELSE GoesOn(p) /\ lock' = (IF AtEnd(p) THEN Nobody ELSE p)
<1>1. pc[p] \in Holding /\ p # Nobody
  BY StoreAssumption DEF IInv, LockInv
<1>2. /\ pc \in [Proc -> {"idle", "waiting", "down"} \cup Holding] /\ step \in [Proc -> Steps]
      /\ todo \in [Proc -> SUBSET Runner] /\ TartTypeOK
  BY DEF IInv, TInv, TypeOK, WorkInv, TartTypeOK
<1>3. CASE UNCHANGED <<pc, todo, step, lock>>
  BY <1>3 DEF Waits
<1>4. ASSUME GoesOn(p), lock' = (IF AtEnd(p) THEN Nobody ELSE p)
      PROVE  G
  <2>1. PcLeft[pc[p]] \in Nat /\ StepLeft[step[p]] \in Nat
    BY <1>1, <1>2 DEF PcLeft, StepLeft, Holding, Steps
  <2>2. ~ Waits(p)
    BY <1>4, <2>1 DEF Waits, GoesOn
  <2> QED
    BY <1>4, <2>2
<1>5. ASSUME NEW q \in Proc, q # p, StepOf(q), step' = step \/ \E s \in Steps : step' = [step EXCEPT ![q] = s]
      PROVE  G
  <2>1. Same(p)
    BY <1>5, OthersKeep DEF IInv
  <2>2. step'[p] = step[p]
    BY <1>2, <1>5
  <2>3. lock' = p
    <3>1. LockInv'
      BY <1>5, LockStep DEF IInv
    <3> QED
      BY <1>1, <2>1, <3>1 DEF Same, LockInv
  <2> QED
    BY <2>1, <2>2, <2>3 DEF Same, Waits
<1>6. ASSUME NEW q \in Proc, TartOp(q)
      PROVE  G
  <2>1. q = p
    BY <1>6, OpHolds
  <2> QED
    BY <1>2, <1>4, <1>6, <2>1, OpGoesOn
<1>7. ASSUME NEW q \in Proc, KillMfm(q)
      PROVE  G
  <2>1. CASE q = p
    <3>1. \E l \in {"idle", "down"} : Leave(p, l)
      BY <1>7, <2>1 DEF KillMfm, Kill
    <3>2. pc'[p] \in {"idle", "down"} /\ lock' = Nobody
      BY <1>2, <3>1 DEF Leave, Unlocked, Goto
    <3>3. PcLeft[pc'[p]] < PcLeft[pc[p]]
      BY <1>1, <3>2 DEF PcLeft, Holding
    <3> QED
      BY <1>4, <3>2, <3>3 DEF GoesOn, AtEnd
  <2>2. CASE q # p
    BY <1>5, <1>7, <2>2 DEF KillMfm, StepOf, Steps
  <2> QED
    BY <2>1, <2>2
<1>8. ASSUME NEW q \in Proc, UNCHANGED host,
             \/ q \in Cli /\ Invoke(q)
             \/ q \in Reaper /\ (StartSweep(q) \/ Restart(q))
             \/ Flock(q)
             \/ StoreStep(q)
      PROVE  G
  <2>1. step' = step /\ StepOf(q)
    BY <1>8 DEF host, StepOf, StoreStep, CliStep, ReaperStep, Transact
  <2>2. CASE q # p
    BY <1>5, <2>1, <2>2
  <2>3. CASE q = p
    <3>1. StoreStep(p)
      BY <1>1, <1>8, <2>3 DEF Invoke, StartSweep, Restart, Flock, Holding
    <3> QED
      BY <1>4, <3>1, StoreStepGoesOn
  <2> QED
    BY <2>2, <2>3
<1>9. CASE (Tick /\ UNCHANGED host) \/ LooseEnds \/ VmExits \/ UNCHANGED tartvars
  BY <1>3, <1>9 DEF Tick, LooseEnds, VmExits, tartvars, host, vars, local
<1> QED
  <2>1. CASE TartNext
    <3>1. CASE \/ \E c \in Cli : Invoke(c) /\ UNCHANGED host
               \/ \E q \in Reaper : (StartSweep(q) \/ Restart(q)) /\ UNCHANGED host
               \/ \E q \in Proc : (Flock(q) \/ StoreStep(q)) /\ UNCHANGED host
      BY <1>8, <3>1 DEF Proc
    <3> QED
      BY <1>6, <1>7, <1>9, <2>1, <3>1 DEF TartNext
  <2> QED
    BY <1>9, <2>1

\* "The lock is what lets the lease CLI and the reaper loop share one state
\* file" (Inventory.transaction): whoever holds it comes to the end of its
\* transaction after finitely many steps of its own, given finitely many stuck
\* VMs to sweep, and releases it there and not before.  No failed Tart command,
\* forgiven delete, exception or kill, its own or another's, sends it back.
THEOREM TransactionsEnd == TartSpec => TransactionsGoOn
<1>1. IInv /\ WorkInv /\ [TartNext]_tartvars => WorkInv'
  BY WorkStep
<1>2. IInv /\ WorkInv /\ [TartNext]_tartvars =>
        [\A p \in Proc : lock = p =>
           IF Waits(p) THEN lock' = p ELSE GoesOn(p) /\ lock' = (IF AtEnd(p) THEN Nobody ELSE p)]_tartvars
  BY LockGoesOn
<1>3. TartSpec => []IInv
  BY TartIsStore, Invariance, PTL
<1> QED
  BY <1>1, <1>2, <1>3, WorkInit, PTL DEF TartSpec, TransactionsGoOn
================================================================================
