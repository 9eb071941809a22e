# A verification of macos-fleet-matrix

`mfm` keeps a fleet of single-use macOS runners in one JSON file. Lease commands take a runner for a
job and give it back, a reaper loop takes overdue runners out of service, and behind a runner there may
be a real VM that the Tart command line boots and deletes. This directory holds TLA+ modules that model
that program, TLC configurations that check them on small instances, and proofs for TLAPS of what must
hold for every fleet. Paths below are relative to the repository (`src/mfm/...` is the package).

## The system

| part | state | operations | meets the others through |
| --- | --- | --- | --- |
| runner record (`model.py`) | state, job, deadline, VM name, VM address | lease, abort_lease, release, quarantine | every command changes records of its private copy |
| scheduler (`inventory.py` ready/pick, `health.py`) | none | pick over the ready runners and a health file | called by `lease acquire` inside a transaction |
| state file (`inventory.py`) | the file, the lock file, a temporary file per save | transaction = flock, load, body, save | the one thing all processes share |
| lease commands (`cli.py`) | one private copy of the fleet | acquire, release | file, Tart, exit status and messages |
| reaper loop (`reap.py`) | one private copy of the fleet | sweep: run the binary, tear down stuck VMs | file, reaper binary, Tart |
| reaper binary (`Reaper/src`) | none | quarantine every overdue lease of its input | stdin and stdout of the sweep |
| Tart adapter (`tart.py`) | none of its own; VMs on the host, detached `tart run`s | acquire, teardown, cleanup, VM names, plans | called inside transactions |
| pipeline validator (`pipeline.py`) | none | shape, cycle check, promotion gates | none; a pure check of JSON files |
| readers (`inventory list`, `metrics`, `--dry-run`) | none | load without the lock | the file |

What is hard here: a command holds the lock while a VM boots, for minutes, and may be killed meanwhile;
success and failure are printed before the save that makes them true; a save may fail after the VM is up;
a release races the sweep that quarantines its runner; a sweep does several fallible operations and
saves once; a Tart command may time out after it has worked; `tart run` is started and left to itself, so a
VM may come up after it has been given up; a deadline counts from before the boot; a dry run reads the file
while a command is at work; different leases may get one VM name. `PROJECT.json` lists every hazard at its
line with the properties that are for it.

What each part must do to be correct: the record must stay coherent and never return to service; the
scheduler must find the best fit runner or none; the file must never lose an update, be torn, or be written
by a failed command; commands must grant each runner once and only what they saved; sweeps must end
overdue leases and go on trying stuck VMs; the adapter must leave no VM behind that nobody knows of, and
touch no VM of a job that holds its lease; the validator must find cycles, and gates that can be bypassed.

## The modules

```
RunnerLifecycle   one record and its operations            RunnerPick   the choice of a runner
      |      \                                              /      |
      |       LeaseBook  what the file promises            /    PickScan   health file and pick() as they run
      |          ^                                        /
      FleetStore (implements LeaseBook)  ----------------+
          ^
      FleetTart (extends FleetStore)  -- composed in MCFleetTart with VmNames, the VM names as texts

      PipelineGate   the pipeline validator, on its own
```

* **RunnerLifecycle** has one operator per method of `Runner` and per write a command makes to the VM
  fields (`AttachVm`, `StrandVm`, `DetachVm`), the reaper's rule (`Overdue`, `ReapOne`) and three relations
  that properties use: `Coherent`, `Forward`, `VmKept`. What the code refuses by raising is a guard
  `Can...`. `runner_id`, `image` and `arch` never change and are left to the index; `vm_ip` is reduced to
  whether there is one. The state "destroyed" exists in the type and nothing reaches it, as in the code.
* **RunnerPick** is `Inventory.pick` as a definition: candidates, fit hosts, and the minimum of
  (rank, swap, inventory order). **PickScan** is the way there as the code takes it: `parse_health` reads the file
  as it is written (`FromProbe`: defaults for missing fields, the thermal word in lower case; `Malformed`: what
  raises, which refuses the whole file), then `pick` makes one pass, one runner at a time. The pass is
  compared with the definition. The ratio `used / total > 0.5` is `2 * used > total`, which also covers a total
  of zero, as `from_probe` accepts no reading with more used than there is.
* **LeaseBook** is the abstract specification: records that change by whole commands. A grant's deadline
  and a sweep's idea of what is overdue may count from an earlier moment, because the code reads the
  clock before it boots a VM or starts tearing VMs down.
* **FleetStore** is the program around the file. `pc` is where a process is: `idle`, `waiting` (flock),
  `locked`, `loaded`, `boot`, `teardown`, `sweep`, the three steps of `save()` (`save`: mkstemp, `write`,
  `replace`), `exit` or `failed` (leaving the transaction with or without an exception) and `down` (no reaper
  loop). `mem` is the private copy, `temp` the temporary file, `said` what has been printed, `grants` counts
  acquires that exited 0. `Init` starts without a file or with the sample fleet saved. A load of a file that
  cannot be read or parsed (`LoadFails`), a refused command, a failing reaper binary, an exception and a failing
  save go to `failed`, which saves nothing. A VM operation is one step with the outcomes the adapter reports.
  `Kill` may hit a process anywhere: the kernel drops its lock.
* **FleetTart** takes those one-step VM operations apart into the adapter's commands: `CollisionCheck`,
  `Clone`, `Spawn`, `WaitForIp`, `Cleanup`, `Stop`, `Delete`, `Confirm`. `vms` is the host; `loose` are commands
  that nobody waits for: every `tart run`, and a command whose `mfm` was killed. A command may work,
  fail, or fail after it has worked (a timeout). The last step of an operation is the corresponding step of
  `FleetStore`, taken over as it is, and the others leave the store alone: that FleetTart implements FleetStore is
  how it is written, not a result. A Tart that is missing when a command is waited for is a `TartError` (fault
  "tart"); one that is missing when `tart run` is started is an `OSError`, which only `_exec` would have turned into
  a `TartError`, and belongs to fault "os" (`Raises`). `DryPlan` is `--dry-run`, a function of the file that takes no lock. Tart itself is external and
  modelled as the code and `tests/fake_tart.py` use it: a clone needs a free name, a delete needs a VM that is
  not running.
* **VmNames** is `vm_name_for` on texts, which are sequences of characters of which some are safe: one dash for
  each run of unsafe ones, dashes and dots stripped from both ends, a prefix, a cut. `MCFleetTart` takes the VM
  names of FleetTart from it, so that two leases with one name are two leases with one name in the model.
* **PipelineGate** is `pipeline.py`: `CheckShape` the references, `TakeReady` and `CyclesChecked` the worklist of
  `_check_cycles`, `CheckPolicy` what `_gate` and the promotion order look up, `StartWalk`, `Visit` and `Walked` one
  walk of `ancestors()` for each pair of stages, `Decide` the verdict. References to the stage itself, to no stage,
  and stages without a list (`NotAList`) are part of the documents, and go through the cycle check as in the
  code, which collects errors and goes on. `ShapeRaises` is a document that makes the validator raise TypeError.
  What is wrong with one stage by itself is one flag, a flaw; the rollback policy, which has no gate, comes to
  such a flaw or none. `Start` and `Finish` execute what was accepted: they are Spinnaker's and external, a stage
  starts when its requisites are over, and a failed gate stops the pipeline if it sets `failPipeline`. The document
  (`requires`, `strict`, `policy`) is any.
* **MC...** modules are the instances for TLC. **...Proofs** and **FleetStoreRefines** hold the theorems.

Definitions named as a mutation in their comment ("Mutant: ...") are plausible bugs, one for every checked
property; put in place of the definition they stand before, each makes its property fail.

## The runs

| run | instance | shows |
| --- | --- | --- |
| `lease_book` | LeaseBook: 2 runners, 2 jobs, lengths 1-2, clock to 3 | `RecordsCoherent`, `LifecycleForward`, `VmStaysRecorded` |
| `pick_scan` | 3 runners on 2 images, every mix of health entries as written: 5 thermal states x {no swap file, exactly half used, more}, missing fields, capitals, junk; silent hosts, no file | `ScanFindsPick`, `NeverOntoSickHost`, `CoolestReporterWins` |
| `fleet_store` | 2 lease commands and a reaper loop, all may be killed, every fault, clock to 2 | `TypeOK`, `NeverTorn`, `NoLostUpdate`, `OneGrantPerRunner`, `GrantIsKept`, `LeaseEndsByOwnerOrDeadline`, `ImplementsBook` |
| `tart_vms` | 1 command, a loop, 2 runners, failing and late Tart commands, Tart missing, clock to 2 | `NoForgottenVm`, `DryRunForetells` |
| `tart_faults` | 1 command, a loop that may be killed, 2 runners of which one is leased for longer, OS errors, failing loads, reapers and saves | `DetachedVmIsGone`, `HeldVmIsSafe`, `TransactionsGoOn` |
| `tart_live` | 1 runner, a command that may be killed, a loop | `StuckVmGoes`, `OverdueLeaseEnds`, `CommandsEnd`, `VmsStayKnown` |
| `pipeline_gate` | 4 stages, any of them missing, without a list or with up to 2 requisites, itself or no stage among them; the lists of two are one name twice, and `build` with `canary` or `green` | `TypeOK`, `CyclesFound`, `GateHolds`, `NeverStuck`, `AcceptedRuns` |
| `failure_report` | FleetStore: 1 command, a loop, no fault | `FailureReportedAfterSave` is violated |
| `sweep_result` | the same with OS errors | `SweepResultKept` is violated |
| `acquire_cleanup` | FleetTart with OS errors | `AcquireCleansUp` is violated |
| `name_collision` | FleetTart without faults, runners `m` and `m-1`, jobs `1//x` and `x/` | `NameIsUnique` is violated |
| `repeated_requisite` | PipelineGate | `ReportedCycleIsOne` is violated |

The largest, `tart_faults`, has 1.1 million states.

**Bounds.** `MaxTime` bounds the clock; two or three moments are enough to have a lease that is running,
one that ends exactly now and one that is overdue. The reaper's rule and the store compare times only
with now, so more moments only repeat these. Two runners let one command or sweep disturb a record it is
not about, and give a sweep two stuck VMs; a runner is leased at most once, so runs end after a few
commands by themselves. Two command slots and one loop give every pair of kinds of process that can
meet at the lock; a slot runs any number of commands one after another. The lock serialises what happens
inside, which is why one command slot is enough in FleetTart; a second runner is left out only of `tart_live`,
where it multiplies the behaviours without a new way to wait. The two slots of `fleet_store`
are interchangeable and declared symmetric; no run with a liveness property uses symmetry. `MaxLen`, 80 in
the code, is 12: long enough that the names of these runs keep what tells their leases apart. Deadlock is
checked everywhere except in `pick_scan`, where the pass ends, and `pipeline_gate`, where a verdict or an execution
does. Four stages are those of the promotion policy, room for a way around the gate and for rings of every
length up to four; lists with two requisites and stages that are missing or have no list change what the
worklist counts.

**Fairness** is stated for FleetTart, where the VM operations take their time, and for PipelineGate. A process
inside a transaction goes on (weak fairness): every Tart call has a timeout, the files are local and the reaper
binary is a loop over its input. `flock` is strongly fair to those that wait, because the kernel queues them.
The loop sweeps again after each sweep, and time passes. Nothing is assumed of people: nobody need issue a
command or restart a loop (no unit file runs `mfm reap`), so the loop is not killed in `tart_live`. On the host
stopping, deleting and listing work again and again when they are tried again and again; without that a stuck
VM rightly stays. The validator is a sequential program and a pipeline engine starts what can start.

**The five disagreements.** (1) A comment in `cli.py` says a failed VM operation is reported after the
transaction saves; the message is printed before. A kill or a failing save in between loses the
quarantine that was announced. (2) `_teardown_vms` promises that one bad VM cannot stop the sweep or
lose the reaper's result; it catches `TartError` only, and an `OSError` (an unreadable log, a binary that may
not be executed) ends the loop with nothing saved. (3) `Tart.acquire` promises a cleanup after any failure
once the clone is attempted; an `OSError` from starting `tart run` skips it, and the VM stays unknown.
(4) `vm_name_for` promises a name that is unique per runner and job; runner `m` with job `1//x` and runner `m-1`
with job `x/` both get `mfm-m-1-x`. In the run the first acquire's clone fails and so does the listing of its
cleanup, so its record is quarantined with the name; the second acquire finds the name free and takes it.
What follows in the code is that the next sweep tears down, for the first record, the second job's VM.
(5) `SPINNAKER.md` says the validator refuses cycles; a stage that lists another one twice is counted twice
and taken off once, and is reported as a cycle that is not there.

## The proofs

All theorems hold for every set of runners, jobs, command lines and processes, every fault and every
kill, under the assumptions on constants the modules name (`LifecycleAssumption`, `PickAssumption`,
`BookAssumption`, `StoreAssumption`, `ScanAssumption`, `GateAssumption`, `NameAssumption`: special values differ from
ordinary ones, lease lengths are positive, VM names are a function of runner and job) and the hypotheses named
below.

* **RunnerLifecycleProofs**: lemmas on one record; every operation keeps its type and coherence, moves it
  forward and keeps its VM.
* **LeaseBookProofs**: `BookInvariant` (types and `RecordsCoherent`), and from it `BookForward` and
  `BookKeepsVms`. The action properties need coherence and not only types: a grant would overwrite a VM
  name if a ready record could have one, and a release would end a lease that has no job.
* **FleetStoreProofs**: `Typed`, from `TInv`, which adds what the value of `pc` says of `mem`, `temp`, `target`.
* **FleetStoreRefines**: the inductive invariant `IInv` and what follows from it. `NoLostUpdate` is not inductive:
  that the private copy of a process agrees with the file needs that nobody else is inside a transaction
  (`LockInv`: whoever is past flock holds the lock), that each process runs only its own kind of operation
  (`RoleInv`), and exactly how far the copy has moved from the file at each `pc` (`Pend`: which operation on
  which record is pending, so that the save is one step of the book). Coherence of the file and `GrantInv` (a
  runner granted once is past "ready") complete it. Results: `NoUpdateIsLost`, `FileIsNeverTorn`,
  `GrantsAreKept` (and `OneGrantPerRunner`), `LeasesAreKept`, `FileImplementsBook` by the step simulation in
  which `Replace` is the book's step and everything else stutters, and `FileIsCoherent`.
* **FleetTartProofs**: the results above carry over to the fleet with its VMs (`TartImplementsBook`,
  `TartLosesNothing`), because every step of FleetTart is one of FleetStore or leaves it alone (`TartIsStore`).
  * `DryRunsAreTrue` needs besides the store's invariant that a boot works on what the scheduler would choose in
    the file as it is (`ChosenInv`): the lock keeps the file from changing under it.
  * `NoVmIsForgotten` is by `HostInv`: every VM, every `tart run` still on its way and every name at work belongs
    to a record as it is about to be saved, or to a boot past its clone. Its hypothesis `Unbroken` (nobody is killed, no
    OS error, no failing save) is needed: each of these cuts an acquire short whose VM is in no record yet.
  * `VmsAreKnown` says what is left without any hypothesis, under every fault and kill: a VM is lost sight of only when the
    acquire that made it is cut short. It rests on `WorkInv` (`TartTyped` is part of it: only a boot is at the
    step that clones), and on two facts: no save but an acquire's comes with a VM name the file does not have, and no
    operation takes a name away before its VM is gone from the list.
  * `DetachedVmsAreGone` is by `GoneInv`: a name that a record is about to lose has no VM, and nothing loose could still
    make one. Sweeps may be killed and saves may fail; its hypothesis is that no lease command is killed, because
    the clone of one may end after another command has found its name free.
  * `HeldVmsAreSafe` is by `OwnInv` (a record's VM name is one of its runner's own) and `LooseInv` (a delete that a
    killed sweep left running is of a VM whose lease is over, and what is over stays over). It assumes as much, and
    that the names of different runners differ (`NamesDiffer`), which the name collision takes away.
    `OnlyNamesakesShareVms` shows from `OwnInv` alone, without a hypothesis, that two records share a VM only where
    `vm_name_for` gives a lease of each the same name. `HeldVmsAreSafeByName` puts in the place of `NamesDiffer` what
    `vm_name_for` does: the constants of VmNames are instantiated there, `NamedByText` says that the names are those
    of the ids of runners and jobs, that these need no change and that runner ids have one length, and
    `NameIsUniqueForIdsOfOneLength` does the rest.
  * `TransactionsEnd` proves `TransactionsGoOn`, the safety half of `CommandsEnd` and `OverdueLeaseEnds`: whoever holds
    the lock only goes forward, by its place in the transaction, then by the VMs it has to sweep, then by the commands of one operation;
    nothing on the host and nobody else sets it back, and the lock is let go at the end and not before.
* **PipelineGateProofs**, four results for documents of any size:
  * `GateIsPassed`. Ancestry is put without paths: b precedes a when every set of stages that holds a and is closed
    under requisites holds b (`Precedes`). `GateInv` says that the walk stays inside each such set, so what it has
    seen precedes the target; that each pair is checked, being checked or in order; and that what has started has its
    requisites behind it. The stages that passed, with one that just started, are closed: so the gate is among them.
  * `CyclesAreFound`, and `GateTyped` with it. The code only counts the stages it has taken; `SortInv` says that there is
    a set T of as many (`Taken`), that each in-degree is the length of a list less the names in T, that the ready are
    those with nothing left, and that no stage of a ring is in T or ready. With nothing ready, the stages outside
    T each name another outside T, or repeat one, or name one without a list. Cardinalities need the document to be
    finite, which `Init` says.
  * `AcceptedGoesOn`: where nothing runs and nothing can start, the waiting stages all name a waiting one, which is a
    ring, and `CyclesAreFound` has it reported. That the names are names of stages is `GoesOnInv`.
  * `EveryStepLowersRank`: the phase, the stages not taken, the pairs not checked, the stages not seen, the names not
    visited, and the stages not finished, compared in this order, fall with every step. With `AcceptedGoesOn` this is
    `AcceptedRuns` but for the fairness that steps are taken.
* **PickScanProofs**: `ScanInv` says that `best` is the pick among the runners the pass has seen. `PassFindsPick` is its
  last state; `SickHostsAreSpared` and `CoolestReporterIsPicked` follow from it and from what a reading that
  `parse_health` let through can be.
* **VmNamesProofs**: every name is made of safe characters, begins with the prefix and is no longer than it may be
  (`NameIsSafe`), for all texts. `NameIsUniqueForIdsOfOneLength` is what remains of the docstring's other promise:
  if ids consist of safe characters, none begins or ends with a dash or dot, names are not cut, and runner ids
  have one length (as in the sample fleet), different leases have different names.

**Only model-checked** are the liveness properties `StuckVmGoes`, `OverdueLeaseEnds`, `CommandsEnd` and
`AcceptedRuns`: they rest on fairness, hence on ENABLED, which the prover does not reason about. Their safety halves are
proved (`TransactionsEnd`, `EveryStepLowersRank`, `AcceptedGoesOn`). Every invariant and action property of a
passing run is stated by a theorem. The measure of `EveryStepLowersRank` is defined beside its proof.

## What is left out

* `inventory list` and `metrics` change nothing and print what they load; what they need is that every state of
  `file` is whole and coherent, which `NeverTorn` and the lease book say. A dry run is in FleetTart.
* In the validator: the fields, types, parameters and payload texts of single stages, which are one flaw. In the
  execution only the gate may fail, because what another failing stage does is not this repository's to say.
* Formatting, messages (except that and when a command has reported), logs, argument lists, `--json`. Bad
  arguments that are refused before the lock change nothing.
* `--pull`: in an acquire it is one more command before the clone that may fail, in a plan one more line before the
  clone's. `plan_acquire` is the plan without it.
* Temporary files that a kill leaves behind are not tracked: nothing reads them.
* Power failures (the save has no fsync), clocks that jump, a deleted state file, a reaper binary that hangs,
  health files that are old: listed as hazards, outside the models. Not modelled either: other users of the host, who could
  make a VM between `exists()` and the clone.
* After a kill of a lease command, or an OS error (a Tart that vanishes before the spawn is one), `NoForgottenVm` is not
  claimed: a VM cloned by a command that was killed before
  its save is named by no record, and nothing in the code looks for it. `VmsStayKnown` says that an acquire cut short
  is the only way to lose one.
* The Swift probe is I/O; the site is a demo with its own fake data; Terraform, Ansible, Packer, Kubernetes,
  Argo CD, Spinnaker and CI files are declarative.

## What remains

1. That a stuck VM goes, by a measure over sweeps: the safety half of `StuckVmGoes`, for any number of stuck VMs.
2. Any number of stores (state files) on one host stay apart if their VM names do.
