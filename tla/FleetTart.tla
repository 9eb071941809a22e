------------------------------- MODULE FleetTart -------------------------------
(***************************************************************************)
(* The fleet with the VMs on its host: every VM operation of FleetStore is *)
(* taken apart into the Tart commands the adapter runs (src/mfm/tart.py),  *)
(* each of which may fail, or time out with or without its effect.  Tart   *)
(* itself is external; `tart run` is started and left to itself, and so is *)
(* a command whose `mfm` is killed while it waits for it.                  *)
(***************************************************************************)
EXTENDS FleetStore

VARIABLES
  vms,     \* the state of every VM on the host
  step,    \* the step of the adapter that each process is at
  loose    \* Tart commands that nobody waits for

host == <<vms, step, loose>>
tartvars == <<vars, host>>

\* What a Tart command needs and what it leaves; Tart deletes no running VM.
Needs == [clone |-> "absent", run |-> "stopped", stop |-> "running", delete |-> "stopped"]
Leaves == [clone |-> "stopped", run |-> "running", stop |-> "stopped", delete |-> "absent"]

Steps == {"start", "clone", "spawn", "ip", "cleanup", "stop", "delete", "confirm"}

TartTypeOK ==
  /\ vms \in [VmName -> {"absent", "stopped", "running"}]
  /\ step \in [Proc -> Steps]
  /\ loose \subseteq (DOMAIN Needs) \X VmName

TartInit ==
  /\ Init
  /\ vms = [n \in VmName |-> "absent"]
  /\ step = [p \in Proc |-> "start"]
  /\ loose = {}

------------------------------------------------------------------------------
(* One operation on one VM *)

Booting(c) == c \in Cli /\ pc[c] = "boot"

Working(p) ==
  \/ p \in Cli /\ pc[p] \in {"boot", "teardown"}
  \/ p \in Reaper /\ pc[p] = "sweep" /\ todo[p] # {}

FirstStuck(p) == CHOOSE r \in todo[p] : \A s \in todo[p] : Position[r] <= Position[s]

\* The VM that p works on.
VmOf(p) ==
  CASE pc[p] = "boot"     -> VmNameFor[target[p]][req[p].job]
    [] pc[p] = "teardown" -> mem[p][target[p]].vm
    [] OTHER              -> mem[p][FirstStuck(p)].vm

TakesEffect(cmd, n) == vms[n] = Needs[cmd] /\ vms' = [vms EXCEPT ![n] = Leaves[cmd]]

\* A failed command did nothing, or timed out after it had done its work.
Fails(cmd, n) == TakesEffect(cmd, n) \/ UNCHANGED vms

Then(p, s) == step' = [step EXCEPT ![p] = s] /\ UNCHANGED <<vars, loose>>

\* The operation is over; what its caller does about it is the store's step.
Over(p, storeStep) == storeStep /\ step' = [step EXCEPT ![p] = "start"] /\ UNCHANGED loose

Booted(p) == Over(p, BootVm(p) /\ mem'[p][target[p]].ip)

\* acquire() raises TartError: no VM is left.  The lease is undone.
Undone(p) == Over(p, BootVm(p) /\ mem'[p][target[p]].state = "ready")

\* teardown() returns: the VM is gone.
Removed(p) ==
  \/ Undone(p)
  \/ Over(p, TeardownVm(p) /\ mem'[p][target[p]].vm = NoVm)
  \/ Over(p, SweepVm(p) /\ mem'[p][FirstStuck(p)].vm = NoVm)

\* teardown() raises, and acquire() with it: the VM may remain.
GivesUp(p) ==
  \/ Over(p, BootVm(p) /\ mem'[p][target[p]].state = "quarantined")
  \/ Over(p, TeardownVm(p) /\ mem'[p][target[p]].vm # NoVm)
  \/ Over(p, SweepVm(p) /\ mem' = mem)

------------------------------------------------------------------------------
(* Tart.acquire *)

\* The name is taken, or `tart list` (or `tart pull`) fails: nothing to clean up.
CollisionCheck(p) ==
  /\ Booting(p) /\ step[p] = "start"
  /\ \/ vms[VmOf(p)] = "absent" /\ Then(p, "clone")
     \/ Undone(p)
  /\ UNCHANGED vms

Clone(p) ==
  /\ Booting(p) /\ step[p] = "clone"
  /\ \/ TakesEffect("clone", VmOf(p)) /\ Then(p, "spawn")
     \/ Fails("clone", VmOf(p)) /\ Then(p, "cleanup")

\* `tart run` blocks while the VM runs, so it is not waited for.  A Tart that is
\* missing here is an OSError (Raises): only _exec makes it a TartError.
Spawn(p) ==
  /\ Booting(p) /\ step[p] = "spawn"
  /\ loose' = loose \cup {<<"run", VmOf(p)>>}
  /\ step' = [step EXCEPT ![p] = "ip"]
  /\ UNCHANGED <<vars, vms>>

WaitForIp(p) ==
  /\ Booting(p) /\ step[p] = "ip"
  /\ \/ vms[VmOf(p)] = "running" /\ Booted(p)
     \/ Then(p, "cleanup")
  /\ UNCHANGED vms

\* A VM that is not listed needs no teardown; without a list nobody knows.
Cleanup(p) ==
  /\ Booting(p) /\ step[p] = "cleanup"
  /\ \/ vms[VmOf(p)] = "absent" /\ Undone(p)
     \/ vms[VmOf(p)] # "absent" /\ Then(p, "stop")
     \/ GivesUp(p)
  /\ UNCHANGED vms

------------------------------------------------------------------------------
(* Tart.teardown *)

Stopping(p) ==
  /\ Working(p)
  /\ step[p] = "stop" \/ (step[p] = "start" /\ pc[p] # "boot")

\* Mutant: a VM that cannot be stopped is not deleted.
StopMustWork(p) ==
  /\ Stopping(p)
  /\ \/ TakesEffect("stop", VmOf(p)) /\ Then(p, "delete")
     \/ GivesUp(p) /\ UNCHANGED vms

\* A failed stop is no reason not to delete, but a missing Tart is.
Stop(p) ==
  /\ Stopping(p)
  /\ \/ Fails("stop", VmOf(p)) /\ Then(p, "delete")
     \/ "tart" \in Faults /\ GivesUp(p) /\ UNCHANGED vms

\* Mutant: a delete that timed out is taken to have worked.
DeleteTrusted(p) ==
  /\ Working(p) /\ step[p] = "delete"
  /\ Fails("delete", VmOf(p)) /\ Removed(p)

Delete(p) ==
  /\ Working(p) /\ step[p] = "delete"
  /\ \/ TakesEffect("delete", VmOf(p)) /\ Removed(p)
     \/ Fails("delete", VmOf(p)) /\ Then(p, "confirm")
     \/ "tart" \in Faults /\ GivesUp(p) /\ UNCHANGED vms

\* Mutant: a delete that failed is forgiven without a look at the list.
ConfirmForgives(p) ==
  /\ Working(p) /\ step[p] = "confirm"
  /\ Removed(p)
  /\ UNCHANGED vms

\* Mutant: a delete that failed is tried again until it works.
ConfirmRetries(p) ==
  /\ Working(p) /\ step[p] = "confirm"
  /\ \/ vms[VmOf(p)] = "absent" /\ Removed(p)
     \/ Then(p, "delete")
  /\ UNCHANGED vms

\* A delete that failed is forgiven if the VM is not listed any more.
Confirm(p) ==
  /\ Working(p) /\ step[p] = "confirm"
  /\ \/ vms[VmOf(p)] = "absent" /\ Removed(p)
     \/ GivesUp(p)
  /\ UNCHANGED vms

Raises(p) == Over(p, VmOpRaises(p)) /\ UNCHANGED vms

------------------------------------------------------------------------------
(* --dry-run *)

plan_acquire(name) == <<<<"clone", name>>, <<"run", name>>, <<"ip", name>>>>

plan_release(name) == <<<<"stop", name>>, <<"delete", name>>>>

\* What a dry run of command line q prints when it reads the fleet from the
\* file, without the lock.
DryPlan(q, fleet) ==
  IF q.op = "acquire" THEN plan_acquire(VmNameFor[Chosen(q, fleet)][q.job])
  ELSE IF fleet[q.runner].vm = NoVm THEN <<>> ELSE plan_release(fleet[q.runner].vm)

------------------------------------------------------------------------------
(* The host *)

\* The command p waits for, if it is one that changes a VM.
Waiting(p) ==
  {<<cmd, VmOf(p)>> : cmd \in {c \in {"clone", "stop", "delete"} :
     Working(p) /\ (step[p] = c \/ (c = "stop" /\ Stopping(p)))}}

\* The command a killed process waits for goes on without it.
KillMfm(p) ==
  /\ Kill(p)
  /\ step' = [step EXCEPT ![p] = "start"]
  /\ loose' = loose \cup Waiting(p)
  /\ UNCHANGED vms

LooseEnds ==
  /\ \E x \in loose : loose' = loose \ {x} /\ Fails(x[1], x[2])
  /\ UNCHANGED <<vars, step>>

\* A VM shuts down or crashes.
VmExits ==
  /\ \E n \in VmName : TakesEffect("stop", n)
  /\ UNCHANGED <<vars, step, loose>>

------------------------------------------------------------------------------
(* Specification *)

TartOp(p) ==
  \/ CollisionCheck(p) \/ Clone(p) \/ Spawn(p) \/ WaitForIp(p) \/ Cleanup(p)
  \/ Stop(p) \/ Delete(p) \/ Confirm(p) \/ Raises(p)

\* The steps of the store that are no VM operations.
StoreStep(p) ==
  \/ p \in Cli /\ (AcquireRefused(p) \/ LeaseRunner(p) \/ Exit(p))
  \/ p \in Cli /\ (ReleaseRefused(p) \/ ReleaseRunner(p))
  \/ p \in Reaper /\ (ReaperFails(p) \/ Reap(p) \/ SweepEnds(p) \/ EndSweep(p))
  \/ Load(p) \/ LoadFails(p)
  \/ CreateTemp(p) \/ WriteTemp(p) \/ Replace(p) \/ SaveFails(p)

TartNext ==
  \/ \E c \in Cli : Invoke(c) /\ UNCHANGED host
  \/ \E p \in Reaper : (StartSweep(p) \/ Restart(p)) /\ UNCHANGED host
  \/ \E p \in Proc : (Flock(p) \/ StoreStep(p)) /\ UNCHANGED host
  \/ \E p \in Proc : TartOp(p) \/ KillMfm(p)
  \/ Tick /\ UNCHANGED host
  \/ LooseEnds \/ VmExits

TartSpec == TartInit /\ [][TartNext]_tartvars

\* A process inside a transaction runs on, flock() is fair to those that wait,
\* reaper loops keep sweeping and time passes.  Nobody need issue commands.  On
\* the host stopping, deleting and listing work again and again, so that what
\* failed is worth trying once more.
TartFairness ==
  /\ \A p \in Proc : /\ SF_tartvars(Flock(p) /\ UNCHANGED host)
                     /\ WF_tartvars(StoreStep(p) /\ UNCHANGED host)
                     /\ WF_tartvars(TartOp(p))
  /\ \A p \in Reaper : /\ WF_tartvars(StartSweep(p) /\ UNCHANGED host)
                       /\ SF_tartvars(Stop(p) /\ vms' # vms)
                       /\ SF_tartvars(Delete(p) /\ Removed(p))
                       /\ SF_tartvars(Confirm(p) /\ Removed(p))
  /\ WF_tartvars(Tick /\ UNCHANGED host)

FairTartSpec == TartSpec /\ TartFairness

------------------------------------------------------------------------------
(* Properties *)

\* "The VM is not forgotten" (docs/TART.md): whenever no command or sweep is
\* at work, every VM on the host is named by a committed record, however the
\* Tart commands failed, timed out after their effect, or raced with a
\* `tart run` that had not started its VM yet.
NoForgottenVm ==
  lock = Nobody =>
    \A n \in VmName : vms[n] # "absent" => \E r \in Runner : Committed[r].vm = n

\* The fleet as it is about to be saved.
Coming == IF lock # Nobody /\ InTransaction(lock) THEN mem[lock] ELSE Committed

\* The program knows of VM n: no clone of it goes on alone, and it is not
\* there, a record names it, or a boot is at work on it.
Known(n) ==
  /\ <<"clone", n>> \notin loose
  /\ \/ vms[n] = "absent"
     \/ \E r \in Runner : Coming[r].vm = n
     \/ \E c \in Cli : Booting(c) /\ step[c] \notin {"start", "clone"} /\ VmOf(c) = n

\* Nothing finds a VM again that no record names (Tart.acquire saves nothing
\* before it clones): one is lost sight of only when the acquire that made it is
\* cut short by a kill, an exception or a failed save, and never by a sweep, a
\* release, or another acquire that meets a clone left running alone.
VmsStayKnown ==
  [][\A n \in VmName : Known(n) /\ ~ Known(n)' =>
       \E c \in Cli : /\ req[c] \in Acquires /\ pc[c] \in {"boot", "save", "write", "replace"}
                      /\ pc'[c] \in {"failed", "idle"}]_tartvars

\* The Tart command that a lease command is about to run, and its place in the
\* plan; what an acquire runs to clean up after a failure is in no plan.
Planned(c) ==
  CASE Booting(c) /\ step[c] = "clone" -> <<1, "clone">>
    [] Booting(c) /\ step[c] = "spawn" -> <<2, "run">>
    [] Booting(c) /\ step[c] = "ip"    -> <<3, "ip">>
    [] pc[c] = "teardown" /\ step[c] = "delete" -> <<2, "delete">>
    [] pc[c] = "teardown" /\ Stopping(c) -> <<1, "stop">>
    [] OTHER -> <<0, "none">>

\* "With --backend tart: print the tart commands and change nothing" (--dry-run):
\* a dry run takes no lock and may read the file in the middle of anything, yet
\* while a lease command is at work, up to each Tart command it runs, a dry run
\* of the same command line prints that command, on that VM, in that place.
DryRunForetells ==
  \A c \in Cli :
    LET place == Planned(c)[1]
        plan == DryPlan(req[c], Committed)
    IN  place > 0 => place \in DOMAIN plan /\ plan[place] = <<Planned(c)[2], VmOf(c)>>

\* A VM name leaves the file only when the host no longer has the VM, through
\* failed saves, exceptions and killed sweeps: nothing is forgotten that is
\* still there.
DetachedVmIsGone ==
  [][\A r \in Runner :
       LET n == Committed[r].vm
       IN  n # NoVm /\ Loaded(file')[r].vm # n => vms[n] = "absent"]_tartvars

\* While a job holds a lease that has not run out, its VM is deleted by nobody
\* but the release of that very lease: no sweep, no other job's command and no
\* cleanup of a failed boot touches it.
HeldVmIsSafe ==
  [][\A r \in Runner :
       LET old == Committed[r]
       IN  old.vm # NoVm /\ vms[old.vm] # "absent" /\ vms'[old.vm] = "absent" =>
             \/ old.state # "leased" \/ Overdue(old, now)
             \/ \E c \in Cli : pc[c] = "teardown" /\ target[c] = r /\ req[c].job = old.job]_tartvars

\* How far a process has to go in its transaction, and an operation to its end.
PcLeft ==
  [locked |-> 7, loaded |-> 6, boot |-> 5, teardown |-> 5, sweep |-> 5, save |-> 4, write |-> 3,
   replace |-> 2, exit |-> 1, failed |-> 1, idle |-> 0, down |-> 0]

StepLeft ==
  [start |-> 7, clone |-> 6, spawn |-> 5, ip |-> 4, cleanup |-> 3, stop |-> 2, delete |-> 1, confirm |-> 0]

\* It goes on: to a later place, to the next VM, or to the next Tart command.
GoesOn(p) ==
  \/ PcLeft[pc'[p]] < PcLeft[pc[p]]
  \/ pc'[p] = pc[p] /\ todo'[p] \subseteq todo[p] /\ todo'[p] # todo[p]
  \/ pc'[p] = pc[p] /\ todo'[p] = todo[p] /\ StepLeft[step'[p]] < StepLeft[step[p]]

Waits(p) == pc'[p] = pc[p] /\ todo'[p] = todo[p] /\ step'[p] = step[p]

AtEnd(p) == pc'[p] \in {"idle", "down"}

\* "The lock is what lets the lease CLI and the reaper loop share one state
\* file" (Inventory.transaction), so whoever holds it must let it go: only
\* finitely many steps are left to it, and nothing that happens, no failed
\* Tart command, VM that comes up late, exception, failed save or kill, its own
\* or another's, gives it more to do or takes the lock from it before its end.
TransactionsGoOn ==
  [][\A p \in Proc : lock = p =>
       IF Waits(p) THEN lock' = p ELSE GoesOn(p) /\ lock' = (IF AtEnd(p) THEN Nobody ELSE p)]_tartvars

\* "A stuck VM is retried on every sweep": it does not stay stuck for ever.
StuckVmGoes == \A r \in Runner : Stuck(Committed[r]) ~> Committed[r].vm = NoVm

------------------------------------------------------------------------------
(* What the documentation says and the code does not do *)

\* "On any failure after the clone is attempted, the half-started VM is stopped
\* and deleted. If that cleanup also fails, TartCleanupError says the VM may
\* remain" (Tart.acquire): an acquire that ends without an address has removed
\* the VM or says that it may remain.
AcquireCleansUp ==
  [][\A c \in Cli :
       LET n == VmOf(c)
       IN  pc[c] = "boot" /\ pc'[c] # "boot" /\ step[c] \notin {"start", "clone"} =>
             mem'[c][target[c]].vm = n \/ vms'[n] = "absent"]_tartvars

\* "A VM name that is unique per runner and job" (vm_name_for): no two runners
\* are recorded with one VM, so that the teardown for one of them never takes
\* the VM of the other.
NameIsUnique ==
  \A r, s \in Runner : r # s /\ Committed[r].vm # NoVm => Committed[r].vm # Committed[s].vm
==============================================================================
