------------------------------ MODULE FleetStore ------------------------------
(***************************************************************************)
(* The state file and the processes that share it: lease commands          *)
(* (src/mfm/cli.py) and reaper loops (src/mfm/reap.py), each of which      *)
(* loads the file under an exclusive lock, changes its private copy, talks *)
(* to Tart or to the reaper binary, and saves the copy by renaming a       *)
(* temporary file (Inventory.transaction and save, src/mfm/inventory.py).  *)
(* A VM operation is one step here with the outcomes the adapter reports.  *)
(***************************************************************************)
EXTENDS RunnerLifecycle, RunnerPick

CONSTANTS
  Cli,            \* slots in which lease commands run
  Reaper,         \* `mfm reap` processes
  Acquires,       \* the `lease acquire` command lines that are issued
  Releases,       \* the `lease release` command lines that are issued
  AnyRunner,      \* no --runner given
  UnknownRunner,  \* a --runner the inventory does not hold
  NoRequest,      \* no command line: the process is not running a command
  Ttl,            \* lease lengths the command lines ask for
  VmNameFor,      \* vm_name_for(): the VM name of a runner and a job
  Nobody,         \* the lock is free
  Absent,         \* no such file, or nothing loaded
  Torn,           \* a file that holds only part of the records
  Faults,         \* what may go wrong in a run
  Mortal,         \* the processes that may be killed
  MaxTime         \* bound on the clock

Proc == Cli \cup Reaper

Fault == {"load",     \* the state file cannot be read
          "tart",     \* a Tart that is waited for is not on PATH, a TartError
          "reaper",   \* the reaper binary fails
          "os",       \* a VM operation raises something other than TartError
          "save"}     \* the temporary file cannot be written or renamed

IsHealth(h) ==
  \/ h \in {NoHealth, BadHealth}
  \/ \A r \in Runner : h[r] = NoReading \/ IsReading(h[r])

IsAcquire(q) ==
  /\ q.op = "acquire"
  /\ q.runner \in Runner \cup {AnyRunner, UnknownRunner}
  /\ q.job \in Job \cup {EmptyJob}
  /\ q.image \in Image \cup {AnyImage}
  /\ IsHealth(q.health)
  /\ q.ttl \in Ttl
  /\ q.tart \in BOOLEAN

IsRelease(q) ==
  /\ q.op = "release"
  /\ q.runner \in Runner \cup {UnknownRunner}
  /\ q.job \in Job \cup {EmptyJob}

ASSUME StoreAssumption ==
  /\ Cli \cap Reaper = {}
  /\ Nobody \notin Proc
  /\ \A q \in Acquires : IsAcquire(q)
  /\ \A q \in Releases : IsRelease(q)
  /\ NoRequest \notin Acquires \cup Releases
  /\ Absent # Torn /\ {Absent, Torn} \cap [Runner -> Record] = {}
  /\ {AnyRunner, UnknownRunner} \cap Runner = {}
  /\ Ttl \subseteq Nat \ {0}
  /\ VmNameFor \in [Runner -> [Job -> VmName]]
  /\ Faults \subseteq Fault
  /\ Mortal \subseteq Proc
  /\ MaxTime \in Nat

VARIABLES
  file,     \* the state file
  lock,     \* the process that holds the lock file, or Nobody
  now,      \* the wall clock
  pc,       \* where each process is
  req,      \* the command line it runs
  mem,      \* its private copy of the fleet
  target,   \* the runner its command is about
  todo,     \* stuck VMs its sweep has still to try
  temp,     \* its temporary file
  said,     \* what its command has printed
  grants    \* how many acquires of each runner have exited 0

local == <<req, mem, target, todo, temp, said>>
vars == <<file, lock, now, pc, local, grants>>

Fleet == [Runner -> Record]

FreshFleet == [r \in Runner |-> Fresh]

\* A missing file means the sample fleet.
Loaded(f) == IF f = Absent THEN FreshFleet ELSE f

Committed == Loaded(file)

Holding == {"locked", "loaded", "boot", "teardown", "sweep", "save", "write", "replace",
            "exit", "failed"}

TypeOK ==
  /\ file \in Fleet \cup {Absent, Torn}
  /\ lock \in Proc \cup {Nobody}
  /\ now \in 0 .. MaxTime
  /\ pc \in [Proc -> {"idle", "waiting", "down"} \cup Holding]
  /\ req \in [Proc -> Acquires \cup Releases \cup {NoRequest}]
  /\ mem \in [Proc -> Fleet \cup {Absent}]
  /\ target \in [Proc -> Runner \cup {NoRunner}]
  /\ todo \in [Proc -> SUBSET Runner]
  /\ temp \in [Proc -> Fleet \cup {Absent, Torn}]
  /\ said \in [Proc -> {"nothing", "success", "failure"}]
  /\ grants \in [Runner -> Nat]

Init ==
  /\ file \in {Absent, FreshFleet}
  /\ lock = Nobody
  /\ now = 0
  /\ pc = [p \in Proc |-> "idle"]
  /\ req = [p \in Proc |-> NoRequest]
  /\ mem = [p \in Proc |-> Absent]
  /\ target = [p \in Proc |-> NoRunner]
  /\ todo = [p \in Proc |-> {}]
  /\ temp = [p \in Proc |-> Absent]
  /\ said = [p \in Proc |-> "nothing"]
  /\ grants = [r \in Runner |-> 0]

------------------------------------------------------------------------------
(* Entering a transaction *)

Goto(p, l) == pc' = [pc EXCEPT ![p] = l]

\* A lease command starts.
Invoke(c) ==
  /\ pc[c] = "idle"
  /\ \E q \in Acquires \cup Releases : req' = [req EXCEPT ![c] = q]
  /\ Goto(c, "waiting")
  /\ UNCHANGED <<file, lock, now, mem, target, todo, temp, said, grants>>

\* Mutant: a sweep does not queue for the lock but waits for its next interval.
StartSweepIfFree(p) ==
  /\ pc[p] = "idle" /\ lock = Nobody
  /\ Goto(p, "waiting")
  /\ UNCHANGED <<file, lock, now, local, grants>>

\* The interval of a reaper loop is over.
StartSweep(p) ==
  /\ pc[p] = "idle"
  /\ Goto(p, "waiting")
  /\ UNCHANGED <<file, lock, now, local, grants>>

\* Mutant: the lock is shared, not exclusive.
LockShared == TRUE

LockFree == lock = Nobody

Flock(p) ==
  /\ pc[p] = "waiting"
  /\ LockFree
  /\ lock' = p
  /\ Goto(p, "locked")
  /\ UNCHANGED <<file, now, local, grants>>

Load(p) ==
  /\ pc[p] = "locked"
  /\ mem' = [mem EXCEPT ![p] = Committed]
  /\ Goto(p, "loaded")
  /\ UNCHANGED <<file, lock, now, req, target, todo, temp, said, grants>>

\* The file cannot be opened or parsed: nothing is done and nothing saved.
LoadFails(p) ==
  /\ pc[p] = "locked"
  /\ "load" \in Faults
  /\ Goto(p, "failed")
  /\ UNCHANGED <<file, lock, now, local, grants>>

------------------------------------------------------------------------------
(* lease acquire *)

ReadyIn(fleet) == {r \in Runner : fleet[r].state = "ready"}

\* --runner names the runner; otherwise the scheduler picks one.
Chosen(q, fleet) ==
  IF q.runner # AnyRunner THEN q.runner ELSE Pick(ReadyIn(fleet), q.image, q.health)

Admissible(q, fleet) ==
  /\ q.runner # AnyRunner => q.image = AnyImage /\ q.health = NoHealth
  /\ q.health # BadHealth
  /\ Chosen(q, fleet) \in Runner
  /\ CanLease(fleet[Chosen(q, fleet)], q.job, q.ttl)

AtAcquire(c) == pc[c] = "loaded" /\ req[c] \in Acquires

\* Anything wrong with the command, or Tart missing, raises: nothing is saved.
AcquireRefused(c) ==
  /\ AtAcquire(c)
  /\ \/ ~Admissible(req[c], mem[c])
     \/ req[c].tart /\ "tart" \in Faults
  /\ Goto(c, "failed")
  /\ UNCHANGED <<file, lock, now, local, grants>>

LeaseRunner(c) ==
  /\ AtAcquire(c)
  /\ Admissible(req[c], mem[c])
  /\ LET r == Chosen(req[c], mem[c])
     IN  /\ target' = [target EXCEPT ![c] = r]
         /\ mem' = [mem EXCEPT ![c][r] = Lease(@, req[c].job, req[c].ttl, now)]
  /\ \/ req[c].tart /\ Goto(c, "boot") /\ UNCHANGED said
     \/ ~req[c].tart /\ Goto(c, "save") /\ said' = [said EXCEPT ![c] = "success"]
  /\ UNCHANGED <<file, lock, now, req, todo, temp, grants>>

\* The VM operation of command c ends: its runner becomes n, c prints s, saves.
Settle(c, n, s) ==
  /\ mem' = [mem EXCEPT ![c][target[c]] = n]
  /\ said' = [said EXCEPT ![c] = s]
  /\ Goto(c, "save")
  /\ UNCHANGED <<file, lock, now, req, target, todo, temp, grants>>

\* Tart.acquire() returns an IP, fails leaving no VM, or fails to clean up.
BootVm(c) ==
  /\ pc[c] = "boot"
  /\ LET r == mem[c][target[c]]
         name == VmNameFor[target[c]][req[c].job]
     IN  \/ Settle(c, AttachVm(r, name), "success")
         \/ Settle(c, AbortLease(r), "failure")
         \/ Settle(c, StrandVm(r, name), "failure")

------------------------------------------------------------------------------
(* lease release *)

AtRelease(c) == pc[c] = "loaded" /\ req[c] \in Releases

Releasable(q, fleet) == q.runner \in Runner /\ CanRelease(fleet[q.runner], q.job)

ReleaseRefused(c) ==
  /\ AtRelease(c)
  /\ ~Releasable(req[c], mem[c])
  /\ Goto(c, "failed")
  /\ UNCHANGED <<file, lock, now, local, grants>>

ReleaseRunner(c) ==
  /\ AtRelease(c)
  /\ Releasable(req[c], mem[c])
  /\ LET r == req[c].runner
     IN  /\ target' = [target EXCEPT ![c] = r]
         /\ mem' = [mem EXCEPT ![c][r] = Release(@)]
         /\ \/ mem[c][r].vm # NoVm /\ Goto(c, "teardown") /\ UNCHANGED said
            \/ mem[c][r].vm = NoVm /\ Goto(c, "save") /\ said' = [said EXCEPT ![c] = "success"]
  /\ UNCHANGED <<file, lock, now, req, todo, temp, grants>>

\* Mutant: after a failed teardown the runner is not quarantined.
TeardownVmDrains(c) ==
  /\ pc[c] = "teardown"
  /\ LET r == mem[c][target[c]]
     IN  Settle(c, DetachVm(r), "success") \/ Settle(c, r, "failure")

\* Tart.teardown() removes the VM, or the runner leaves service with it.
TeardownVm(c) ==
  /\ pc[c] = "teardown"
  /\ LET r == mem[c][target[c]]
     IN  \/ Settle(c, DetachVm(r), "success")
         \/ Settle(c, Quarantine(r), "failure")

------------------------------------------------------------------------------
(* The reaper's sweep *)

\* The reaper binary exits non-zero: the sweep raises.
ReaperFails(p) ==
  /\ pc[p] = "loaded"
  /\ "reaper" \in Faults
  /\ Goto(p, "failed")
  /\ UNCHANGED <<file, lock, now, local, grants>>

\* The binary applies its rule to every runner; the VMs stuck after that are
\* to be torn down, unless Tart is missing.
Reap(p) ==
  /\ pc[p] = "loaded"
  /\ LET reaped == [r \in Runner |-> ReapOne(mem[p][r], now)]
     IN  /\ mem' = [mem EXCEPT ![p] = reaped]
         /\ \/ todo' = [todo EXCEPT ![p] = {r \in Runner : Stuck(reaped[r])}]
            \/ "tart" \in Faults /\ todo' = [todo EXCEPT ![p] = {}]
  /\ Goto(p, "sweep")
  /\ UNCHANGED <<file, lock, now, req, target, temp, said, grants>>

\* The next VM, in inventory order, is torn down or stays for the next sweep.
SweepVm(p) ==
  /\ pc[p] = "sweep"
  /\ \E r \in todo[p] :
       /\ \A s \in todo[p] : Position[r] <= Position[s]
       /\ todo' = [todo EXCEPT ![p] = @ \ {r}]
       /\ \/ mem' = [mem EXCEPT ![p][r] = DetachVm(@)]
          \/ UNCHANGED mem
  /\ UNCHANGED <<file, lock, now, pc, req, target, temp, said, grants>>

SweepEnds(p) ==
  /\ pc[p] = "sweep"
  /\ todo[p] = {}
  /\ Goto(p, "save")
  /\ UNCHANGED <<file, lock, now, local, grants>>

\* A VM operation raises an exception nobody catches inside the transaction.
VmOpRaises(p) ==
  /\ \/ pc[p] \in {"boot", "teardown"}
     \/ pc[p] = "sweep" /\ todo[p] # {}
  /\ "os" \in Faults
  /\ Goto(p, "failed")
  /\ UNCHANGED <<file, lock, now, local, grants>>

------------------------------------------------------------------------------
(* Inventory.save *)

CreateTemp(p) ==
  /\ pc[p] = "save"
  /\ temp' = [temp EXCEPT ![p] = Torn]
  /\ Goto(p, "write")
  /\ UNCHANGED <<file, lock, now, req, mem, target, todo, said, grants>>

\* Mutant: the file is renamed while what was written is still in a buffer.
WrittenUnflushed(p) == Torn

Written(p) == mem[p]

WriteTemp(p) ==
  /\ pc[p] = "write"
  /\ temp' = [temp EXCEPT ![p] = Written(p)]
  /\ Goto(p, "replace")
  /\ UNCHANGED <<file, lock, now, req, mem, target, todo, said, grants>>

Replace(p) ==
  /\ pc[p] = "replace"
  /\ file' = temp[p]
  /\ temp' = [temp EXCEPT ![p] = Absent]
  /\ Goto(p, "exit")
  /\ UNCHANGED <<lock, now, req, mem, target, todo, said, grants>>

\* Mutant: save() swallows the error.
SaveFailsSilently(p) ==
  /\ pc[p] \in {"save", "write", "replace"}
  /\ "save" \in Faults
  /\ temp' = [temp EXCEPT ![p] = Absent]
  /\ Goto(p, "exit")
  /\ UNCHANGED <<file, lock, now, req, mem, target, todo, said, grants>>

\* The save raises; the temporary file is removed.
SaveFails(p) ==
  /\ pc[p] \in {"save", "write", "replace"}
  /\ "save" \in Faults
  /\ temp' = [temp EXCEPT ![p] = Absent]
  /\ Goto(p, "failed")
  /\ UNCHANGED <<file, lock, now, req, mem, target, todo, said, grants>>

------------------------------------------------------------------------------
(* Leaving *)

\* Mutant: the lock stays locked when a process is gone.
LockKept(p) == lock

Unlocked(p) == IF lock = p THEN Nobody ELSE lock

\* The process lets go of the lock and of everything it had in memory.
Leave(p, l) ==
  /\ lock' = Unlocked(p)
  /\ Goto(p, l)
  /\ req' = [req EXCEPT ![p] = NoRequest]
  /\ mem' = [mem EXCEPT ![p] = Absent]
  /\ target' = [target EXCEPT ![p] = NoRunner]
  /\ todo' = [todo EXCEPT ![p] = {}]
  /\ temp' = [temp EXCEPT ![p] = Absent]
  /\ said' = [said EXCEPT ![p] = "nothing"]

\* A lease command exits: 0 if it saved and reported success, else 2.
Exit(c) ==
  /\ pc[c] \in {"exit", "failed"}
  /\ LET granted == pc[c] = "exit" /\ req[c] \in Acquires /\ said[c] = "success"
     IN  grants' = [r \in Runner |-> IF granted /\ r = target[c] THEN grants[r] + 1 ELSE grants[r]]
  /\ Leave(c, "idle")
  /\ UNCHANGED <<file, now>>

\* A sweep that saved is followed by the next; one that raised ends the loop.
EndSweep(p) ==
  /\ \/ pc[p] = "exit" /\ Leave(p, "idle")
     \/ pc[p] = "failed" /\ Leave(p, "down")
  /\ UNCHANGED <<file, now, grants>>

\* A kill or Ctrl-C: the kernel drops the lock; nothing else is cleaned up.
Kill(p) ==
  /\ p \in Mortal
  /\ pc[p] \notin {"idle", "down"}
  /\ Leave(p, IF p \in Cli THEN "idle" ELSE "down")
  /\ UNCHANGED <<file, now, grants>>

\* Somebody starts `mfm reap` again.
Restart(p) ==
  /\ pc[p] = "down"
  /\ Goto(p, "idle")
  /\ UNCHANGED <<file, lock, now, local, grants>>

Tick ==
  /\ now < MaxTime
  /\ now' = now + 1
  /\ UNCHANGED <<file, lock, pc, local, grants>>

------------------------------------------------------------------------------
(* Specification *)

\* The steps every process takes inside a transaction.
Transact(p) ==
  \/ Load(p) \/ LoadFails(p) \/ VmOpRaises(p)
  \/ CreateTemp(p) \/ WriteTemp(p) \/ Replace(p) \/ SaveFails(p)

CliStep(c) ==
  \/ AcquireRefused(c) \/ LeaseRunner(c) \/ BootVm(c)
  \/ ReleaseRefused(c) \/ ReleaseRunner(c) \/ TeardownVm(c)
  \/ Exit(c)

ReaperStep(p) == ReaperFails(p) \/ Reap(p) \/ SweepVm(p) \/ SweepEnds(p) \/ EndSweep(p)

Next ==
  \/ \E c \in Cli : Invoke(c) \/ CliStep(c)
  \/ \E p \in Reaper : StartSweep(p) \/ ReaperStep(p) \/ Restart(p)
  \/ \E p \in Proc : Flock(p) \/ Transact(p) \/ Kill(p)
  \/ Tick

Spec == Init /\ [][Next]_vars

------------------------------------------------------------------------------
(* Safety *)

InTransaction(p) == pc[p] \in Holding \ {"locked", "exit", "failed"}

\* The runners that the command or sweep of p may change.
Concerns(p) ==
  IF p \in Cli THEN {target[p]}
  ELSE {r \in Runner : Overdue(Committed[r], now) \/ Stuck(Committed[r])}

\* "The lock is what lets the lease CLI and the reaper loop share one state
\* file without one overwriting the other's change" (Inventory.transaction):
\* whatever a process is about to save agrees with the file on every runner
\* that its own command or sweep does not concern, however long its VM
\* operations take and whoever is killed meanwhile.
NoLostUpdate ==
  \A p \in Proc : InTransaction(p) =>
    \A r \in Runner \ Concerns(p) : mem[p][r] = Committed[r]

\* A crash between any two steps of save() leaves the file whole: a reader,
\* who takes no lock, never sees part of a fleet.
NeverTorn == file # Torn

\* Once an acquire has exited 0 the runner it named is never on offer again,
\* not even after failed saves, kills, or sweeps that raise.
GrantIsKept == \A r \in Runner : grants[r] > 0 => Committed[r].state # "ready"

\* No runner is ever granted twice: two acquires, racing each other, a
\* release, a sweep or a crash, never both exit 0 for the same runner.
OneGrantPerRunner == \A r \in Runner : grants[r] <= 1

\* A committed lease ends only in the save of a release that names its runner
\* and its job, or because its deadline has passed: no other job's command, no
\* failed command and no crash takes a runner from a job that still holds it.
LeaseEndsByOwnerOrDeadline ==
  [][\A r \in Runner :
       LET old == Committed[r]
       IN  old.state = "leased" /\ Loaded(file')[r].state # "leased" =>
             \/ Overdue(old, now)
             \/ \E c \in Cli : /\ pc[c] = "replace"
                              /\ req[c] \in Releases
                              /\ req[c].runner = r
                              /\ req[c].job = old.job]_vars

\* The file, with all the processes around it, behaves as the lease book.
Book == INSTANCE LeaseBook WITH book <- Committed

ImplementsBook == Book!Spec

------------------------------------------------------------------------------
(* Liveness *)

\* "A runner that has missed its lease deadline is removed from scheduling":
\* an overdue lease ends, though lease commands hold the lock for whole VM
\* boots and may be killed at any point.
OverdueLeaseEnds ==
  \A r \in Runner : Overdue(Committed[r], now) ~> Committed[r].state # "leased"

\* Every lease command comes to an end, behind any number of sweeps and of
\* other commands: nobody waits for the lock for ever.
CommandsEnd == \A c \in Cli : pc[c] = "waiting" ~> pc[c] = "idle"

------------------------------------------------------------------------------
(* What the documentation says and the code does not do *)

\* "A failed VM operation is reported after the transaction saves, so the
\* quarantine and the recorded VM name are not lost" (cli.py): a failure that a
\* command has reported is in the file.
FailureReportedAfterSave ==
  \A c \in Cli : said[c] = "failure" => Committed[target[c]] = mem[c][target[c]]

\* "Failures are reported, not raised, so one bad VM cannot stop the sweep or
\* lose the reaper's result" (_teardown_vms): a sweep past the reaper saves.
SweepResultKept ==
  [][\A p \in Reaper : pc[p] = "sweep" => pc'[p] \in {"sweep", "save"}]_vars
==============================================================================
