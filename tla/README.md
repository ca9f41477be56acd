# unoq-ota: a TLA+ model of the update agent

`unoq-ota` updates the sketch on the microcontroller (MCU) of an Arduino UNO Q
from its Linux side: it polls a signed manifest, downloads and verifies an image,
writes it over SWD with openocd, waits for the new sketch to report its version,
and commits or rolls back. A reconciler at boot repairs a board whose MCU runs
nothing. This directory holds TLA+ modules of that machinery, the TLC runs that
check them on small instances, and TLAPS proofs of the main properties for every
instance. Source paths below are relative to the repository.

## 1. Inventory

| Part | State it keeps | Operations | Interacts with |
|---|---|---|---|
| update agent, `unoq_ota/agent.py` | the cycle in memory; `staged.bin`, `staged-host.tar.gz`, `current.bin`, `previous.bin` | `run_once`: screen, preflight, fetch, verify, gate, drift check, flash, health, host swap, commit, rollback | every part below |
| boot reconciler, `reconciler.py` | nothing | `reconcile`: check health, try `current`, `previous`, `golden` | MCU and image files only; deliberately not `state.json` |
| state store, `state.py` | `state.json`: phase, attempts, poison list, sequence watermarks, committed and previous version | `load`, `save` (temp file, fsync, rename), `record_attempt`, `poison` | agent, sources (poison filter) |
| host payload, `host.py` | `live_dir`, `.next`, `.previous`, `.failed` | `apply_host_tree`, `rollback_host_tree` | agent; systemd unit of the host program |
| verification, `verify.py`, `artifact.py` | none | signature, window, sequence, target, digests, sketch structure | agent |
| flasher, `flasher.py` | the MCU's flash and whether it is halted | `write_sketch`, `read_resident_header`, `router_stopped` | openocd, systemd |
| health check, `health/version_report.py` | none | `wait_alive`, `wait_healthy` | the sketch's output through arduino-router |
| preflight, `preflight.py` | none | `check_clock`, `check_disk_space`, `detect_drift` | agent, flasher |
| sources, `sources/*.py` | none | `check` (filters poisoned versions), `report`, `download` | agent, event journal |
| gates, `gates/*.py` | none | `may_fetch`, `may_flash` | agent, modem |
| router guard, `flasher.py` | which units to start again | `router_stopped`, `_running_dependents` | systemd, arduino-router and the services that require it |
| event journal, `events.py` | journal file, offset of the last event posted | `record`, `flush_unsent` | sources, boot unit, jobs service, a server |
| IoT jobs runner, `jobs_runner.py` | queue of offered executions, ids offered, status last reported | the job loop, SDK callbacks, status mapping | AWS IoT SDK threads, a verify-only agent |
| services, `systemd/` | | reconcile before run at boot, `Restart=always` | all |

What is hard here: power cuts and crashes between any two durable changes, on two
devices (Linux files and MCU flash) that no transaction spans; operations on the
MCU that fail half way; a health check that can miss live firmware; a server that
goes on advertising a version for ever; bytes and manifests that are not what was
published; somebody using the IDE behind the agent's back; two services sharing
one state directory and one journal; a reset line that systemd may drive under a
write; a broker that loses, repeats and reorders messages. `PROJECT.json` lists these as hazards, each at its line, with
the properties that would notice it going wrong.

What makes each part correct, in a sentence: recovery always ends, never harms
firmware that lives, and revives a board that still has its golden image; the
agent writes only verified bytes, a bounded number of times per version, with
`state.json` ahead of the hardware; it reports commits and rollbacks that are true;
recovery images have all proved themselves on this board; a host update never
loses the tree it replaces; the router guard keeps the reset line still and puts
the board back; the health check believes only firmware that counts upwards; the
journal delivers everything, in order, until a flush is misled by an overlaid
offset; a job is run once, ends, and is told its
own outcome.

## 2. Modules

| Module | Models |
|---|---|
| `Common`, `StateStore` | `None`; the record in `state.json` and what each store operation makes of it |
| `Device` | MCU, openocd outcomes, health answers, drift, recovery images |
| `HostOps`, `HostTree` | the host pair one call at a time, and the same calls one directory operation at a time |
| `Verify` | manifests and the verdicts of the verification chain |
| `Agent` | `run_once` |
| `Reconciler` | `reconcile`, and its own specification |
| `UpdateLedger` | abstract: what the agent promises about a device's history |
| `UpdateSystem` | agent + reconciler + MCU + power + IDE + lost state, with all board properties |
| `RouterGuard` | `router_stopped` against systemd |
| `EventLog` | the journal and its offset, shared by several processes |
| `HealthCheck` | the sketch's lines, their collection and the two verdicts |
| `FlashWindow` | one flash as the board sees it: the three above composed with the agent's thread, resets, deaths and power cuts |
| `JobsRunner` | the jobs service, the SDK callbacks and the job loop |
| `SharedBoard` | `run` and `jobs` at once on one state directory: two instances of `Agent` |
| `MC*` | the instances for TLC |
| `*_proofs` | theorems and proofs; those of `RouterGuard` and `HealthCheck` are in `FlashWindow_proofs` |

`UpdateSystem` extends `Agent` and `Reconciler`, which share `Device`; `Agent` uses
`HostOps` for its host step, which is checked (`AddsUp`) against `HostTree`.
`FlashWindow` extends `RouterGuard`, `EventLog` and `HealthCheck` and keeps only
the part of the agent that they meet: report, guarded write, check, unguarded
rollback, report. `SharedBoard` extends `UpdateSystem` and adds a second
`Agent` with `INSTANCE ... WITH` over the same files.

**Steps.** One step makes at most one durable change: a save of `state.json`, a
file, a directory operation, a write to the MCU. `pc` (agent), `rpc` (reconciler)
and `hpc` (host) name the change to come, so a crash falls between any two.
A dying process loses its locals (`Return`) and may leave the change it was making
half done: `Interrupted` for the MCU, `Leftovers` for a download, `HostCrashes` for
the host pair. Reports go with the change they accompany.

**Data.** A sketch image is the version it would report and whether it is whole.
`staged.bin` and friends are such an image or `Nothing`. A manifest carries its
version and sequence, whether a known key signed it, whether it names this board,
and which sketch and tree its digests are of; a digest matches exactly when the
staged bytes are those. `Live` is the set of firmwares that come up and keep
reporting; it may leave out a version that is broken.

**Faults.** The constant `Faults` says what can go wrong in an instance:
`flash` (openocd fails anywhere), `health` (a live sketch is missed), `store`
(a save, copy or removal fails), `read`, `fetch`, `corrupt` (any bytes arrive),
`gate`, `clock`, `disk`, `host`, `crash` (the process dies and is restarted),
`power` (the board reboots), `ide`, `state_loss`. Theorems quantify over it.

**History variables.** `burns` counts writes begun per version, capped one above
the limit; `proven` collects images that passed a health check; `trouble` and
`mishaps` record which faults occurred, so that a property can say under which of
them it is claimed. No guard reads them.

**Abstractions worth knowing.**
Failures that escape `run_once` (an unreadable `state.json`, which `load` reports
as `StateError`) end the process, so they are instances of `AgentDies`. A
`state.json` with some invalid fields is not told apart from a lost one
(`StateLost`). Malformed manifests (no URL, no host URL) end like a failed
download. An oversized sketch fails in `write_sketch` like any failed write. The
two staged files are removed in one step. In `Agent`, the host step leaves out
a file system that refuses operations half way; `HostTree` has it. In
`UpdateSystem` cycles run one at a time; `SharedBoard` runs two.

In `EventLog` bytes are pieces: what one append left in the file, a whole line or
a fragment without its newline, so that an offset counts pieces. The offset file
is text without a lock: `write_text` empties it and then writes digits at its
beginning, so after two processes have emptied it a shorter number can be laid over
a longer one and leave a third (10050, then 9950: 99500). The model then takes any
number above the one stored, up to one beyond the journal; one that falls inside a
piece counts as its end, since what is left of the piece parses as nothing. The
history variable `garbled` says that the file holds such a number and `misled` that
a flush has started from one; the delivery properties are claimed up to then.

The router's unit and its monitor port are told apart (`router`, `port`): after a
start, or between an exit and systemd's restart of it, the unit is up or on its way
and the port refuses connections. The check tries it again after a pause until its
deadline (`Refused`, `Retry`, `TimeUp`, `GiveUp`); a port that opens after the
deadline leaves no time to read. A slow router can thus make healthy firmware look
dead, and the model has that case. A health line is
its version and its number; numbers are text in base `Radix`, so that a line cut
off by the deadline carries a leading part of its number, and a line broken off by
a reset swallows the next. The history variable `marred` tells that this happened
in a check; the verdicts are claimed without it, since such lines really can hide
a restart. In `RouterGuard` the history variable `slips` collects what went wrong
in a window: a listing that failed, a stop refused or given up, units that started
between the calls. systemd, the sketch and the jobs service are external and
modelled by what the code relies on. In `JobsRunner` messages are sets: they may
be lost, overtake each other and, for the answer to a claim, come again.
`stranded` is the one thing the service does not survive: since it started, a
message was lost, or an execution came back under an id it remembers.

## 3. Runs

All bounds are in the `.cfg` files and `MC` modules; attempts are bounded by the
code's own cap of 2 and sequences by the manifests on offer, so every state space
is finite without a constraint.

| Run | Instance | Distinct states | Shows |
|---|---|---|---|
| `reconcile` | every device over two versions, golden and foreign, any images; flash, health and read faults | 206 000 | recovery ends, is truthful, spares and revives |
| `host` | three payloads, any number of updates; extraction, disk, health faults, crashes | 13 000 | the old tree survives, live is never torn, summary is right |
| `board` | two versions, one with a host payload, one unsigned manifest; flash, health, host faults, crashes, power cuts | 5.0 million | budget, write-ahead, truthful reports, ledger; nothing bricks it |
| `inputs` | one version published three ways (sound, wrong image signed, unsigned); store, corrupt, fetch, gate, read, clock faults, IDE, crashes, lost state, both modes | 3.0 million | only verified bytes are flashed; unsigned is harmless |
| `settle` | one version with a host payload; flash, health, fetch, host faults, crashes, power cuts; fair | 40 000 | writes end, updates settle |
| `flash_window` | two processes on a journal of three pieces, one dependent unit, two sketches, lines numbered 0 and 1 in base 2, one restart within a check | 3.7 million | the reset line is still under guarded writes, the board is put back, the check tries to its deadline and its answer is earned, events are delivered in order until a flush is misled |
| `jobs` | two jobs, the second perhaps with a document that is refused; any losses, repetitions, cancellations and retries; one death; fair | 980 000 | a job runs once in a process, gets its own outcome, and ends; the loop never waits in vain |
| `host_crash`, `host_undo`, `repoison`, `last_good`, `shared` | the smallest that shows it | | five statements of the documents that do not hold, section 5 |

Why these bounds are enough to be interesting: three payloads give a host update a
tree before and one before that, which the undo finding needs; two versions give
`current.bin` and `previous.bin` different contents; in `board` a version can fail,
be retried, be rolled back onto the other, and be interrupted at every step; the
foreign sketch has the header length of one version and not of the other, so
drift is seen and missed. In `flash_window` two pieces are enough for a fragment
to spoil the line behind it and for one process to lay its offset over another's,
and the third is the record whose flush starts from the overlaid digits (the
theorems hold for any length); a sketch prints two lines, 0 and 1, and in base 2
the third, cut off by the deadline, has a leading digit that reads 1;
one restart is what separates a boot loop from progress. In `jobs` a second job is
what a stale outcome, an id that blocks the queue or a lost wake-up needs; the
death falls at every step, also with the outcome already out. Deadlock is checked
everywhere except in `reconcile`, which is a program that ends, and `jobs`, whose
loop rightly waits when every job is done.

**Fairness** (`reconcile`, `settle`): weak fairness of the reconciler's steps, of a
cycle's steps, of starting the agent after the boot unit, and of polling. The run
loop never waits on anything without a timeout, and systemd starts the units; for
polling it is assumed that a source with an update does not hide it for ever.
Faults have no fairness: they may happen always or never. `EveryUpdateSettles`
assumes only that crashes, power cuts and failed downloads stop at some point; it is
about trusted manifests, in an instance without gate, clock or store faults (a gate
that never opens, or a disk that never saves, does postpone an update for ever).
In `jobs`: the service answers what reaches it, SDK thread and loop go on
(`run_once` has no wait without a timeout; the `.result()` calls of
`jobs_runner.py:261-263` and 304, which wait for the broker to acknowledge a
subscription or a publish, have none either, so that the broker acknowledges, or the
SDK gives up, is assumed here and not guaranteed by this code), and systemd restarts the process
(`Restart=always` in `unoq-ota-jobs.service`). `EveryJobEnds` is claimed of
behaviours in which the process is not stranded for ever.

Each property has a mutant: an operator with `_mut` in its name, a plausible slip
in the code it stands for, under which TLC finds the property violated.

## 4. Theorems

Every theorem is for all versions, trees, manifests, fault sets and modes that
satisfy the named assumptions (`Nothing` is no version, image or status; golden
and foreign are no versions; manifests are manifests).

* `Reconciler_proofs`: `RecoveryRevives`, `RecoveryReportsTrue`,
  `RecoveryNamesTheImage`, `RecoveryRestoresNewest`, `RecoverySpares`,
  `ReconcileTyping`. The inductive invariant `RecoveryInv` adds to the type what a
  result relies on: that the scan starts with the first candidate
  (`AtFirst`), that an image on trial is what is on the target (`OnTrial`), that
  each candidate passed over with no trouble was unusable (`PassedOver`), that a
  target that was not missed is silent (`Silent`), and that
  with only missed health checks the target lives once the golden image has been
  tried or recovery is done (`GoldenWorked`). `RecoveryGoesForward`: every step
  lowers `RecoveryRank`, which is at most 8, whatever fails.
* `UpdateSystem_proofs`: `BoardTyping`, one lemma per group of actions.
  `BricksAreImpossible` is what the first line of `reconciler.py` promises, over a
  board's whole life: `BootInv` adds to the types that no step of the agent or of
  a recovery touches the golden image (`GoldenStays`), that a recovery begins with
  the first candidate (`AtFirst`), and that the target is inhabited once the golden
  image was tried with no trouble, or recovery is done (`Revived`).
  `BoardRecoveriesAreTrue` carries `RecoveryInv` over to the board: every boot
  starts a recovery afresh and nothing but an IDE upload, which asks no lock,
  interferes with it (`NoUploads` excludes it; the upload may replace the sketch
  just found healthy). `CyclesGoForward`: every step of `run_once` lowers
  `CycleRank`, which is at most 25, and only a poll raises it.
* `Ledger_proofs`: `FlashBudgetHolds`, `WriteAheadHolds` and the refinement
  `LedgerImplemented`, under `SavesHold` (no failing saves, no lost state: with
  either, the counters can be forgotten and the claims are false). `FlashBudget`
  counts the writes of updates, not those of rollbacks and boots, and
  is not inductive; `LedgerInv` adds that a version being processed is not
  poisoned and is newer than the committed one (`Fresh`), still has an attempt to
  spend (`Spare`), has one on record and unspent just before the write (`Armed`),
  has been written just after it (`Burned`), and that the phase is ahead of the
  write (`Phased`). Initial states map to initial states and every step to a step
  of the ledger or a stutter.
* `Provenance_proofs`: `FlashedIsVerified`, `RecoveryImagesAreProven`,
  `CommitsAgree`, `RollbacksAreTrue`, `UnsignedLeavesNoMark`, whatever fails.
  `ProvInv` follows the staged image from the verdict to the commit: trusted,
  vetted, under test on the target, passed, host swapped, copied (`Kept`).
* `HostTree_proofs`: `HostTyping`, `UndoIsExact`, `AncestorIsSafe`, `LiveIsWhole`,
  `OperationsAddUp`. `HostInv` says where the old and the new tree are at each
  directory operation.
* `EventLog_proofs`, for any processes and any room: `NoEventIsSkipped`,
  `DeliveryIsInOrder`, `BacklogIsDelivered`, `LogTyping`. The first three are about
  all that happens until a flush is misled, garbled offsets that are emptied again or
  point beyond the end included. `LogInv` adds that the journal fits (`Fits`), that
  an offset somebody stored is inside it (`Inside`), and that the
  place each flush has come to also bounds a delivered part unless one was misled
  (`FlushesDeliver`), because it is what gets stored; that makes the shared offset
  safe to move back.
  `FlushesGoForward`: every step of a flush lowers its `FlushRank`, at most three
  for each piece there is room for, and nothing another process does raises it.
* `FlashWindow_proofs`, for any dependents, versions, radix, processes, room,
  numbers and restarts.
  - The guard by itself: `LineIsStill`, `UnitsComeBack`, `GuardTyping`. `GuardInv`
    adds that from the stop on, unless something slipped, the router is down with
    no stop job left (`RouterIsDown`), and that the guard's flag and list tell the
    truth about the stop (`StopIsKnown`).
  - The composition: `WindowTyping`; `WindowIsStill` and `WindowRestores`, the
    guard's guarantees among resets, kills, power cuts and units that come and go;
    `JournalIsKept`, that the window implements the journal's specification (each
    step is a journal step or leaves the journal alone), from which
    `EventsSurviveTheFlash` follows by `EventLog_proofs`; `PortIsOpen`, that the
    check after a write is given up only at its deadline, and that the router is
    then at least starting unless a systemctl call of its own window failed (not
    that the port opens in time, which the code cannot promise).
  - The check, in the composition: `NoBootLoopIsAlive` and `SteadyIsAlive`.
    Verdicts are drawn at the end from lines collected before, so `HealthInv` says
    what the lines are evidence of (`Evidence`): in a check one version runs
    (`OneVersion`), boots never go back along the lines (`BootsInOrder`), and, of
    lines neither joined nor cut, numbers rise within a boot (`Rising`) and a
    restart is followed by a first line, 0 (`RestartsShow`); that the next line will fit behind the last (`NextFits`); and
    that an answer given is the verdict on these lines (`Judged`). A restart after
    a line past the first would then be a step back, and a step back between any
    two reports is one between two neighbours; the latter takes the least-number
    principle, not induction over the sequence.
  - `WindowInv` joins these with where guard and check stand for each place of the
    agent's thread (`Places`) and that, unless a call of this window failed, the
    router is up when the check connects (`RouterIsUp`).
* `JobsRunner_proofs`, for any number of jobs, refusals and deaths:
  `OutcomesAreOwn` (outcomes on the way and about to be sent are earned too:
  `UpdatesAreOwn`, `ResultIsOwn`), `NoJobRunsTwice` (queued, worked on and run
  are different jobs: `QueueIsFresh`, `WorkIsFresh`), `LoopIsAnswered` (an offered
  job is with the process, has ended, or its outcome is on the way:
  `OfferedIsSettled`; a queued next execution needs a claim, an answer or an
  announcement: `WaitIsHeard`), `JobsTyping`. That the next execution exists rests on the
  least-number principle (`LeastNatural`), from the library's well-foundedness of
  the naturals.

The ranks are the safety half of termination (of `RecoveryEnds` for the recovery,
of a part of `NoEndlessLoop` for the cycle): what is left to fairness is only that
a step that can be taken is taken. A cycle stopped by a crash is not continued but
begun again, which is why the flash budget, and not the rank, bounds the writes.

Only model-checked: the liveness properties `RecoveryEnds`, `NoEndlessLoop`,
`EveryUpdateSettles` and `EveryJobEnds` (fairness is beyond the prover), and the
five violations.

## 5. Where the documents and the code disagree

1. `repoison`. The attempt cap is looked at before the watermark
   (`agent.py:306`), so a version whose first write failed and whose second was
   committed is poisoned and reported `REJECTED` on the next poll. DESIGN.md:304
   says a version is poisoned when it fails.
2. `last_good`. A `FlashError` (`agent.py:512`) is reported without a rollback.
   Two of them end in `REJECTED` with nothing running on the MCU until a reboot;
   DESIGN.md:449 says the device "stays on last good".
3. `host_crash`. Between the two renames (`host.py:76`) nothing is under
   `live_dir`, against the docstring of `apply_host_tree`; no one repairs it.
4. `host_undo`. A payload that does not extract makes the agent call
   `rollback_host_tree` (`agent.py:279`) although nothing was swapped. If an
   earlier update left a `.previous`, that older tree replaces the live one.
5. `shared`. DESIGN.md:341 shows an `ota.lock` "held across the flash step"; no code
   takes one. `unoq-ota jobs` downloads into the same `staged.bin` as
   `unoq-ota run`, which reads it by path for the write (`agent.py:511`). A version
   published while an update is being installed can thus replace the file after
   its verification, against README.md:28.

These are shown by runs that end in a violation. Three more were met on the way;
the properties of the passing runs either except them or state what the code does:

6. `flash_window`, `NothingSkipped`. Two processes that write the offset file at the
   same time (`events.py:139`) can leave a number neither of them stored, section 2;
   a flush that starts from it skips events for good. `events.py:8` says that unsent
   lines are tracked there and retried.
7. `inputs`, `UnsignedIsHarmless`. DESIGN.md:289 has a bad signature poison the
   version; the code (`agent.py:439`) and its test only reject the manifest, so that
   nobody without a key can ban a version.
8. `flash_window`, `NoResetMidWrite`. DESIGN.md:394 has the router stopped "for the
   duration of the flash", and `unoq-ota-reconcile.service:27` gives that as the
   reason to run as root; rollbacks (`agent.py:578`) and boot recoveries write with
   the router running. The property is claimed of guarded writes only.

Not counted as disagreements, because nothing written says otherwise, but worth
knowing: a `systemctl stop` given up after 30 seconds still happens, and the
router it takes down is not started again before the next window; an execution
that the service retries under its old id is dropped by a running jobs service,
and blocks the jobs behind it; a claim or answer that is lost is not repeated
until another job is announced; a cycle that cannot reach the manifest reports
nothing and so counts as "up to date", `SUCCEEDED`.

## 6. Plan

Done: the core (state store, device, verification, agent, reconciler, host tree,
their composition, the ledger), the router guard, the journal, the health check and
the window that composes them, the jobs runner, two agents on one state directory;
their runs, findings and proofs, every safety property of a passing run included.

Left, in order of worth: a rank for the job loop, as there is for recovery, cycle
and flush; what two agents on one state directory still
guarantee; lost load-modify-save updates of `state.json` between the two services
as a statement of its own.

## 7. Not modelled

* DNS repair (`dns.py`): one sequential pass over the text of `resolv.conf`
  and the routing table before the jobs client connects; no state outlives it.
* Board description (`board.py`), key loading, credentials, KMS signing: file
  and network I/O around libraries.
* S3 presigning and URL handling of the sources; what a failed or altered
  download leaves behind is modelled.
* Parsing of routes and modem output in the gates; a gate answers yes or no.
* Argument parsing and printing of the command line.
* The publisher's tools and the examples other than the sketch's report lines: they
  run on a workstation and share no state with a device.
