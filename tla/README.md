# wi-fucked: a TLA+ model of the appliance and its fabric

The appliance is a Raspberry Pi that joins every connection it can find
("atomics": a home Wi-Fi, a phone's hotspot, a USB modem, a cable), spends the
metered ones only when the critical class of its LAN needs them, and carries
client traffic through one WireGuard tunnel to a fabric server, so that sessions
survive a change of the connection underneath. This directory models the parts
of that system that decide, remember and repair, checks them with TLC on small
instances, and proves the core results with TLAPS for all values of the
constants.

File names below are relative to `src/`; `wifucked/` is
`src/appliance/src/wifucked/` and `fabric/` is `src/fabric/src/fabric/`.

## 1. Inventory

### The appliance daemon

One process, `wifucked/daemon.py`: a loop thread that runs a fast, a medium and a
slow loop by the clock, Flask request threads, and a small thread pool for LAN-out
pipelines. systemd restarts it; kernel state is never torn down (ADR-008).

| component | state | operations | talks to |
|---|---|---|---|
| allocator | hysteresis (`state`, `since`, `transitions`, `last_liveness`), last allocation | `decide`, `due_for_liveness`, `mark_liveness_probed` | reads registry and demand, writes the decision journal, feeds enforce and tunnel |
| policy | none | profiles, thresholds | allocator |
| registry (`atomics/`) | `_atomics` in memory, `atomics.json` on disk | `observe`, `set_mode`, `set_role_and_mode`, `update_*`, `persist`, `_load` | loop thread and request threads, the SD card |
| discovery | cached Wi-Fi scan and its time | `sweep` | HAL to registry |
| probe | last counters per connection, the deadline of a pass | `begin_pass`, `observe`, `fold` | HAL to registry; blocks the loop thread |
| demand | last counters of the LAN | `sample` | HAL to allocator |
| lanout | `_was_present`, `_decided`, `_in_flight`, a thread pool | `consider`, `_run_pipeline` | HAL's DHCP tools, registry, dnsmasq |
| enforce | none of its own; the kernel's CAKE qdiscs, nft table, ip rules | `render`, `reconcile` | allocation and registry to kernel |
| tunnel | `_via_atomic_id`, `_server`; the kernel's interface and host route | `attach`, `bind_to`, `status` | fabric server, kernel |
| telemetry | buffer, sqlite journal, time of the last flush | `record_*`, `tick`, `flush`, `close`, `recent_decisions` | loop thread writes, main thread closes, API reads |
| radio | `csa_unavailable`, profile, channels seen | `observe`, `align` | hostapd and the station |
| api, ui | none | `POST /api/atomics/<id>/mode`, reads | registry |

### The fabric server

`fabric/`: gunicorn with two worker processes, each with its own
`FabricWireGuard` object (cached key, `_ready`), over one `peers.json`, one key
file and one kernel interface. `/register` brings the interface up, allocates an
address under a lock, adds the peer and answers.

### Around them

`update_script.sh`, `watchdog.sh`, `bootcount.sh` and `firstboot.sh` with their
systemd units (release swap, rollback, factory reset by short boots, identity), one
disk between them; `netmon/` (a separate monitor), provisioning and CI scripts.

### What is hard

- **Timing.** Asymmetric dwell times and a liveness budget, driven by samples that
  may come late, miss, flip, or start again after a restart (allocator).
- **Threads and files.** `persist()` snapshots under a lock and writes outside it,
  all threads into one temporary file; a probe holds an Atomic for seconds and
  writes back while a request changes it (registry).
- **Long-running work on old facts.** A classification takes half a minute while
  cables move, the daemon restarts and tools fail; what it started outlives it
  (lanout).
- **Drift.** Any command may fail and is swallowed, interfaces take their routes
  with them, NetworkManager wipes state; the loops must notice and repair
  (enforce, tunnel).
- **One thread for everything.** Scans and pings block the thread that also does
  failover; a budget, a timeout and a throttle keep it moving (daemon, probe,
  discovery).
- **Clocks that disagree.** The monotonic clock starts again with the kernel, the
  wall clock is set by NTP, a record's age is carried over both (probe, registry,
  telemetry).
- **Power cuts.** Four scripts on one disk, and a user who is told to pull the plug
  (update and boot scripts); SQLite with `synchronous=NORMAL` (telemetry).
- **Processes sharing files.** Two workers, calls that time out and are retried
  while the first is still being worked on, crashes between two steps (fabric).

`PROJECT.json` lists every such hazard at its line with the properties that would
catch it.

### What makes each part correct

- allocator: money is spent late and for critical demand only, help comes in time,
  no bouncing, allocations satisfy the contract `render()` raises on, the journal
  agrees with what is spent, probes stay within budget across restarts;
- probe and demand: an estimate is never trusted beyond its age and never exceeds what
  its connection carries; demand is never overstated;
- the loop thread: failover is not held up by probing, a dead link is noticed, the
  radio is scanned rarely and moved only when no cable is in use, a channel conflict
  ends;
- telemetry: a window is stored whole and once, little is lost, a clean stop loses
  nothing, the newest decision comes first;
- update and boot: the device never runs half a release, undoes a bad update once,
  condemns no release that works, resets only when asked to and then completely,
  keeps its identity (sections 3 and 6 say how far each holds);
- registry: presence and health agree, a choice whose persist returned survives
  unplugging, late probes, failed writes and crashes, disk catches up with memory;
- lanout: DHCP is not served on a network with an owner, a LAN_OUT port is
  really served, every candidate port gets a verdict;
- enforce and tunnel: the kernel keeps returning to what the allocation asks for,
  the tunnel leaves over the primary, its memory agrees with its route, best
  effort gets no table on a BACKUP;
- fabric: addresses are unique and stable, whoever was answered is a peer, the
  lock is never left behind, one identity.

## 2. Modules

| module | models | uses |
|---|---|---|
| `Allocator` | `allocator/`, `policy/`, the medium loop around `decide()` | |
| `AllocatorHistory` | history variables, the allocator's properties | `Allocator` |
| `MCAllocator` | instances for TLC | `AllocatorHistory` |
| `AllocatorProofs` | theorems about the allocator, alone and with the data plane under it | `AllocatorHistory`, `DataPlane` |
| `Registry` | `atomics/registry.py` with its threads, the state file as inodes | |
| `RegistryProofs` | theorems | `Registry` |
| `LanOut` | `lanout/`, `hal/linux.py`'s `LinuxDhcp`, discovery and registry as the classifier sees them | |
| `LanOutProofs` | theorems | `LanOut` |
| `DataPlane` | `enforce/`, `tunnel/`'s `bind_to`, the fast loop, composed with the allocator | `Allocator` |
| `MCDataPlane` | instances for TLC | `DataPlane` |
| `Journal` | what the store of telemetry promises: the abstract specification | |
| `Telemetry` | `telemetry/`, the scheduler's telemetry entry, the signal handler, SQLite | `Journal` by refinement |
| `MCTelemetry` | instance for TLC | `Telemetry` |
| `TelemetryProofs` | theorems | `Telemetry` |
| `Device` | `update_script.sh`, `watchdog.sh`, `bootcount.sh`, `firstboot.sh` and their units | |
| `DeviceProofs` | theorems | `Device` |
| `Estimator` | `probe/`'s passive half, `demand/`, the age of an estimate in `atomics.json` | |
| `MCEstimator` | instance for TLC | `Estimator` |
| `EstimatorProofs` | theorems | `Estimator` |
| `Radio` | `radio/`, hostapd, the station | |
| `Loop` | `run_forever` and `tick`, the active half of `probe/`, the throttled scan of `discovery/` | `Radio` |
| `MCLoop` | instance for TLC | `Loop` |
| `LoopProofs` | theorems | `Loop` |
| `Fabric` | `fabric/app.py`, `peers.py`, `wireguard.py` and the appliance's `attach` | |
| `MCFabric` | symmetry of appliances and workers | `Fabric` |
| `FabricProofs` | theorems | `Fabric` |

Definitions called "slips" in comments are plausible mistakes in the code they
stand beside: replacing the definition by its slip must break the property the
slip is listed with in `PROJECT.json`.

### Allocator

`MediumLoop(w, d)` is one pass of `Daemon._medium_loop` from `decide()` on: the
registry snapshot `w` and the demand `d` are inputs from `Worlds` and `Demands`.
`StepHysteresis` is `_step_hysteresis` state by state, `Build` is `_build`,
`Key`/`RecordedAction` decide what the journal gets, `SpendLivenessBudget` is
`_spend_liveness_budget` in the same pass. `Restart` forgets what the process
remembers; `Tick` lets any time pass between two passes, so a decision may come
as late as the loop lets it.

Abstractions: `trust` stands for the confidence of an estimate (at or above the
minimum after decay, below it, never measured); of a decision record the action
and the allocation are kept; ties of `_best` and `_chosen_backup`, which the code
breaks by RTT and list order, are left open.

The history variables of `AllocatorHistory` say since when the samples have shown
the same thing; they are computed from the inputs, not from the hysteresis, and
guard nothing.

### Registry

Every `with self._lock` block is one step. What `persist()` does outside the lock
is a step each: opening (truncating) the one `atomics.tmp`, writing, renaming. The
two names `atomics.tmp` and `atomics.json` point at inodes, so a thread goes on
writing into the inode it opened after another has renamed it. A write over an
inode that another thread filled meanwhile may leave that one's tail (`Torn`).
`Probe`/`Measured` hold an atomic between reading and writing back. `Crash` loses
memory at any step and loads the file. The order in which a power cut lets renames
and data reach the card is not modelled: a crash is one of the process.

### LanOut

A port has a physical side (`plugged`, `segment`: what its cable leads to), a
kernel side that outlives the daemon (`addr`, `conf`: dnsmasq's drop-in, written
or loaded) and an entry in the registry. `MediumLoop` is discovery, `consider()`
(forgetting after an absence, submitting, harvesting), the application of verdicts
by `_classify_lanout_ports` and the measurement that follows. The pipeline's steps
are `StartWorker`, `AttemptClientLease`, `PassiveListen`, `StartServer`, with the
failures of each tool: dhclient that fails where it would have been answered, or is
cut off with its lease set (`LeaseFails`), a listener that hears nothing, a drop-in
that cannot be written, a reload that fails or is reported failed after it took
effect, and an `ip addr add` that fails, which `start_server` ignores
(`StartServerFails`). `undisturbed` records that nobody touched the port and that
neither its listener nor its server failed since its pipeline began; a failing
dhclient does not count against it, because the listener comes after it. NORMAL and
BACKUP are one mode here. A restart takes the entries in memory as persisted, which
`Registry` shows to hold as long as persists do not overlap.

### DataPlane

`FastLoop(failed)` is one pass of `Daemon._fast_loop`: read back, compare, apply,
bind, where `failed` is the set of commands that fail in this pass (every one is
logged and swallowed). CAKE shapes each direction on a device of its own, by a
command of its own: `shaping` has an `up` rate, which goes with the interface, and a
`down` rate on the IFB device, which stays. A rate of zero reads back as no shaper
(`Shapers`), so a connection whose upload was never seen is applied again in every
pass. `Unplug` takes qdiscs and routes over the interface with it, `Wipe` is somebody
else removing rules, marks or a qdisc, `Restarts` leaves the kernel alone. Only
connections with an interface are atomics here; table numbers, marks and IFB names,
which are computed from an identity, are the identity. `beat` makes a medium loop that
changes nothing a step, so that fairness can speak of it.

`BindTo` has three outcomes: the route is replaced; the command is refused; it is
killed by its timeout after it took effect, which `_run` reports like the second.
Where the endpoint has no host route the main table decides, and any plugged link may
carry it (`Carriers`): a missing route is not silence. `lost` records that the route
is no longer what the last successful `bind_to` made it, because it went with its
interface or because of the third outcome. `bind_to` compares identities only (424),
so in both cases it goes on believing in its route; the properties say that these two
are the only ways to come apart.

### Fabric

`Attach`, `GiveUp` and the end of `Answer` are the appliance's `attach`; every
call has a number, so that an answer reaches only the call it belongs to. A worker
walks through `/register`: `Accept`, `ReadKey`, `WriteKey` (truncating and writing
are two steps), `EnsureReady`, then `Load`, `Known`, `Store` or `Exhausted` under
the lock, `AddPeer`, `Answer`. `Fail` is a `WireGuardError` or `OSError` at any of
them; `WorkerDies` and `ContainerRestart` lose what each loses. Of `allowed-ips`
the peer's own address is modelled, with WireGuard's rule that an address belongs
to one peer; the private ranges are not (section 6).

### Telemetry and Journal

The loop thread passes through `BeginPass`, the loops (which record at any time and
take up to `MaxPass`) and `EndPass`, which is the telemetry entry of `Daemon.tick`
followed by the test of `Telemetry.tick`; the flush is its transaction (`Flush`,
which replaces the buffer first and may fail) and the trim (`Trim`) under the same
lock. `Signal`, `Close` and `Exit` are the main thread. `wal` is the sequence of
database states not yet synced: a process that dies loses none of them, a power cut
any number from the newest on (`synchronous=NORMAL`), a checkpoint keeps only the
last. Time is counted; `Wall` is what `clock.wall()` may answer, which need not agree.

`Journal` says what that amounts to, with neither clock, thread nor error: pending
records become persistent together or are lost together, never twice, and leave the
store oldest first and only beyond the retention. `ImplementsJournal` maps `buffer`
to its `pending` and `wal` to its `versions`.

### Device

The files the scripts share (`versions/<v>`, `current`, `previous`, `healthy`,
`.bootcount`, the state and the connections a reset removes, `config.json`, the key,
the sentinel) are variables; every command that changes one is a step, `echo > file`
is two (truncate, write), `rm -rf` of a slot is two (`Clear`: half gone, gone) and
`mkdir` another (`Make`), `ln -sfn` is one. Boot script, update, watchdog and the
detached `sleep 60` interleave as their units allow: the watchdog starts 90 seconds
after boot, the daemon after `bootcount` and `firstboot`. `PowerCut` at any step keeps
the files and nothing else.

All scripts run under `set -e`, and a command that fails ends its script where it is:
`BootFails` (the counter or its log line cannot be written, and the detached clear is
never started), `FirstFails` (`wg genkey` or `tee` fails, with the key file created),
`UpdateFails`, `WatchFails` (the stamp cannot be written). `Edit` changes `api_host`
and `api_port`, together or one alone, at any time; the watchdog reads the file when it
asks, the daemon when it starts, and `DaemonRestarts` is systemd starting it again. An
update may be to any version, at any time, and may run beside the watchdog.

The histories `racing` (update and watchdog overlapped), `reused` (slots an update
removed while a link named them, and has not unpacked), `moved` (`api_port` edited and
the daemon not restarted since), `miscounted` (the write of the counter was cut or
failed), `complete` (the last swap was followed by the write of `previous`) and
`condemned` (what ran before was whole when the watchdog decided) record the cases in
which the code does not do what its comments say. The model contains them all, each
property names the ones it excuses, and section 6 describes what happens then: without
its excuse each property is violated. Writes reach the disk in the order they are made;
that a card may reorder them is not modelled.

### Estimator

Three clocks: real time, the monotonic clock (real time since `boot`) and the wall
clock (real time plus `skew`, set at any moment). `Advance` lets a unit of time pass
in which some connections are saturated and others quiet; the byte counters of an
interface start at zero when it appears, except the radio's, which stays. `MediumLoop`
is `observe` with `fold` for every connection that was discovered, and `sample`.
`Persist` writes ages, `Start` loads them as `_load` does, by what the wall clock
says has passed. A unit of time is a half-life; confidence is in twentieths. `truth`
is a history variable: when the estimate was really earned.

### Radio and Loop

`Loop` is the one thread: `Tick`, the medium loop (`Scan`, `Measure`, then for each
connection in the order of `present()` an `ObservePassively` or a `StartPing` with its
two targets), the fast loop with `ObserveRadio` and `Align`, and `Sleep`. The time a
scan, a ping or a sleep takes is kept as time left until each deadline, so the loop
runs for ever in finitely many states. Between any two steps the user sets a mode,
cables come and go, the line behind one dies, the station roams, hostapd stops and
starts. Scanned networks are not links of this module (the radio is one interface
and its health needs no ping). `include_wifi_wan` is taken as on, which is not the
default: with it off there is no scan.

## 3. Runs

States are distinct states found; every passing run ends within five minutes.

| run | checks | shows | states |
|---|---|---|---|
| `allocator` | `TypeOK`, `BackupOnlyAfterSustainedShortfall`, `PromptActivation`, `LivenessBudget`, `SharesAreConsistent`, `JournalExplainsSpending`, `NoBounce` | BACKUP neither early nor late, whatever the order of samples, lost links, pauses and restarts; probes within budget; allocations of three connections satisfy `render()`'s contract and the journal agrees with spending | 98,766 |
| `registry` | `PresenceMatchesHealth`, `ChoiceIsRemembered`, `DiskCatchesUp` | consistency and durability under two threads, failures and a crash | 1,639,564 |
| `lanout` | `ServerOnlyWhereQuiet`, `LanOutIsServed`, `EveryPortIsClassified` | no server on an owned network while nobody touches the port and listener and server work, also where dhclient fails; role and kernel agree as long; every candidate gets its verdict | 219,778 |
| `dataplane` | `RouteFollowsBinding`, `NoBestEffortTableOnBackup`, `KernelConverges`, `TunnelFollowsPrimary` | repair after failed and killed commands, wipes, replugs and a restart; failover reaches the host route, not only the daemon's memory | 71,574 |
| `fabric` | `NoSharedAddress`, `AttachedIsServed`, `IdentityIsKept`, `LockMeansInside`, `AddressIsKept` | two workers, three appliances, two addresses, three calls, one crash, one fault | 2,940,149 |
| `telemetry` | `LossIsBounded`, `NewestFirst`, `CleanStopKeepsRecords`, `ImplementsJournal` | the store implements the journal; the two gates of a flush skip one at most; a stop keeps everything | 1,197,697 |
| `device` | `RollbackOnce`, `CurrentIsWhole`, `BadUpdateIsUndone`, `NoFalseAlarm`, `ResetIsDeliberate`, `ResetIsFinished`, `IdentityIsImmutable` | four scripts on one disk under power cuts, failing commands and edits of the configuration | 6,017,081 |
| `estimator` | `ConfidenceIsHonest`, `EstimateIsAFloor` | estimates on three clocks, over unplugging, crashes and reboots | 2,384,371 |
| `loop` | `FailoverIsPrompt`, `ScanIsRare`, `AnchorIsStill`, `ConflictEnds`, `DeadIsNoticed` | one thread, blocked by scans and pings, in a changing world | 457,914 |

Three runs show where the code and what is said of it part (section 6):
`device_watchdog`, `loop_starvation` and `fabric_restart`.

Type invariants: the one of `Allocator` is checked in its run, since it says more
than types (no ceiling below zero). Those of `Allocator`, `Fabric`, `Telemetry`,
`LanOut` and `Estimator` are proved, and the invariants of `RegistryProofs` and
`DeviceProofs` begin with the types of their modules. Of `Loop` the proofs need the
clocks and the place of the thread only.

### Bounds, and why they are enough

- `allocator`: `MaxTime` is 5 with dwells of 2 and an interval of 4: an activation, a
  release and a liveness probe fit, and a restart anywhere between. Rates are in units
  of 256 kb/s, so bootstrap headroom, deficit and margin are 1, 2 and 4. The theorems
  hold for all of them.
- `registry`: one connection (rows do not interact), a loop and an API thread, two
  decisions, one crash, one failed write. Two threads already give every overlap
  of two persists; more crashes repeat what one does, since a crash forgets
  everything but the disk.
- `lanout`: two ports and one worker, so one has to queue; two moves allow plugging
  both, or moving or unplugging one; one restart, one fault, one choice of the user.
- `dataplane`: two connections, two moves (an unplug and a replug), one fault: a wipe,
  a restart or a pass in which up to two commands fail (`MaxFailing`; a readback and
  an apply, two applies, or an apply and the bind). The phone's upload is unknown.
  Time 1 with an activation dwell of 1 lets BACKUP activate.
- `fabric`: three appliances for the two addresses of the pool, so it runs out;
  three calls let one appliance retry twice. Appliances and workers are symmetric.
- `telemetry`: an interval of two pauses with passes of up to one, and time 7, so that
  flushes are due, skipped and due again; two records, one more than the
  table of samples retains; two faults (failed transactions, a
  failed trim, crashes, power cuts); an open that fails costs none. The theorems hold for any of them.
- `device`: three releases, one of them bad, and three events (`MaxEvents`: updates,
  edits, restarts, faults and failing commands together), so that a good update may
  follow a bad one, or an edit or a failure of either come between, with any number of
  boots and power cuts; a threshold of 2 short boots instead of 3
  and 2 probes instead of 3, which only shortens the counting.
- `estimator`: a cable with an interface of its own and a network on the radio, three
  half-lives, one restart of process or kernel, three moves: a cable plugged in,
  pulled and plugged in again, or fewer and a clock set back. Two networks that share
  the radio are excluded by `EstimateIsAFloor` (section 6) and not in the instance. The run ends with its time bound, so deadlock is not checked.
- `loop`: two cabled connections, the shortest order in which one can starve the
  other; two channels; three events of the world. Periods keep the proportions of the
  deployed ones, with a budget of 3 in `loop` and the deployed 2 (less than a ping
  takes) in `loop_starvation`.

### Fairness

- `Registry`: weak fairness of the steps of `persist()` and of the end of a probe
  (threads run, pings time out); strong fairness of `SlowPersist`, because the
  slow loop is due by the clock and `tick()` looks at the clock on every pass,
  however busy the loop is.
- `LanOut`: weak fairness of every pipeline step (all have timeouts) and of the
  medium loop as far as it changes the classifier's memory: the loop keeps
  ticking, but the model need not force passes that change nothing.
- `DataPlane`: weak fairness of the medium loop, of a fast loop without failures
  (failures are bounded, so they end) and of time.
- `Loop`: weak fairness of the loop thread as a whole: it is never stopped, and what
  blocks it ends, because every subprocess has a timeout.
- `Fabric`: weak fairness of a worker's steps once it has a request; every command
  has a timeout. Nothing is assumed of appliances calling again.

Deadlock is checked except in `Fabric`, which may stop (when every appliance is
attached nothing happens any more), and in `Estimator`, whose time is bounded. The
other modules always have a next pass of some loop, a crash or a boot.

## 4. Theorems

All are checked by TLAPS to the last leaf.

**AllocatorProofs.** `TypeCorrect` first: `DecideAllocation` shows that every
allocation `decide()` may return is well formed, shares nothing it quiesces and
uses BACKUP exactly in state `active` with a usable one. The properties of timing
are not inductive: they relate allocation and history, and say nothing of the
hysteresis' own clock. `IInv` ties the three together: state `active` is exactly an
allocation that uses BACKUP; ARMING was entered during the shortfall that still
lasts, ACTIVE only after a shortfall of the whole activation dwell; a run of samples
that need BACKUP happens in ARMING or ACTIVE only and started no earlier than the
ARMING it is waited out in, which has not lasted the dwell yet. `HysteresisInvariant` proves it inductive, one step per
action and per state of the hysteresis; `SpendingIsLate`, `HelpIsPrompt` and
`NoBounceTheorem` follow. `SharesTheorem`, `JournalTheorem` (the key contains
`backup_active`, and the record tests it first), `SingleHotspotTheorem` (without a
critical class there is never a deficit) have invariants of their own, and
`BudgetTheorem` strengthens the budget to `BudgetInv`: the probes fit into the time
up to the newest one.

The same module proves the data plane under the allocator:
`RouteFollowsBindingTheorem` and `BestEffortTablesTheorem`. The first is about where
packets leave, which the main table may get right by chance; its invariant `BindingInv`
is about the host route itself. Its premise is a binding that is not `lost`, so it says
that refused commands, wipes, restarts and other interfaces never part memory and route,
and claims nothing of the two events that do. The second needs `RoutingInv`, that the allocation in force gives best effort a
ceiling of zero on a BACKUP, which `BuildGivesZero` and `DecideGivesZero` derive
from `_build`, also when the BACKUP is promoted to primary.

**FabricProofs.** All of `Fabric`'s safety, for any number of appliances, workers and
addresses. `TypeTheorem` needs `WorkInv`, what a worker has got at each step of
`register()`; `LockTheorem` is inductive with it. `NoSharedAddress` speaks only of
what appliances were told, and says nothing of the registry, so `AddressInv`
strengthens it: the registry is injective and avoids the server's address, a worker
inside the guard has read the registry as it still is (this is where the lock is
needed), and what workers allocated and appliances configured is what the registry
says. From it follow `NoSharedAddressTheorem` and the action property
`AddressIsKeptTheorem`. `AttachedIsServedTheorem` adds `ServedInv` (the kernel's
peers are the registry's, so that giving a peer its address takes none from another;
no link belongs to a container yet to come), `IdentityTheorem` adds `IdentityInv`
(with a key file that can be read nobody makes a key).

**TelemetryProofs.** `LossBound`: for any interval, pause and length of a pass no record
waits for two intervals and two passes. The statement is about one variable; the
invariant `TimeInv` is about the two gates. `PassInv` places the clock within a pass
and says how far the scheduler's next entry can be; `GateInv`, that this entry is never
two intervals past the last flush (a flush that ran late in its pass makes the next due
one a no-op, and the one after that cannot be); `RecordInv`, which pass the oldest
waiting record belongs to, with cases of its own for the first pass of a process and
for a stop. `TypeCorrect` rests on `DataInv`. `Refinement` shows that every step, also
one of a failing transaction or a power cut, is a step of `Journal` or changes nothing
of it; `TrimIsSuffix` and `TrimForgets` do the trim.

`CleanStop` is about a moment after the last step of a stop, so it needs what holds from
the signal on: `StopInv`, a record that was in the buffer at the signal is kept (it is
in the database, or its table is full of newer rows) or still waits for the flush of the
main thread. That a flush and a trim keep what is kept (`InsertKeeps`, `TrimKeeps`)
takes `OrderInv`: rows are stored and buffered in the order they were made in, in every
version of the log a power cut may return to.

`NewestComeFirst` is about what a request thread is answered between any two steps:
while the wall clock did not step back, the newest decisions, newest first and without a
gap, from table and buffer together. `OrderInv` gives the order by id, `TimelyInv` the
order by time, of every version a power cut may return to and of what the next
transaction would write. From both, `SortedRows`: the row that exactly i - 1 others
precede is the i-th from the end (`ORDER BY at DESC` reads the table backwards), so
`MergedRows`: the answer is stored rows followed by buffered ones, read from the end.
`CountLast` and `CountIds` count the newer ids by a bijection.

**DeviceProofs.** All seven properties of the scripts, for any releases, thresholds and
numbers of updates, edits, failures, boots and power cuts. None is inductive, because
each speaks of the files at one moment and a power cut or a failing command may come at
any other: the invariant says for each script what it has done at each of its commands.
`CountInv` and `ResetInv` are about `bootcount.sh` (the counter never runs ahead of the
short boots; half a reset is seen only with a counter that makes the next boot go on, or
after a miscount), `KeyInv` about `firstboot.sh`, `WholeInv` about the slots the links
and the scripts' variables name, `RollbackInv` about update and watchdog together (a
rollback makes `current` and `previous` equal, which the watchdog's guard refuses),
`ListenInv` about the port the watchdog asks, the one in the file and the one the daemon
bound. `DeviceInvariant` puts them together. The premises of the theorems are those of
the properties: `UpdateIsUndone` needs the previous slot whole and recorded,
`AlarmIsTrue` a daemon started after the last edit of the port, `ResetIsResumed` a
counter that was written whole. `KeyIsNeverRemade` says that a key is written once; that
it is a key, and not an empty file, is false in the code and not claimed.

**LoopProofs.** `FailoverBound` holds for any number of connections, periods, budgets and
timeouts. `PassInv` says at each place of the thread how much time can have passed since
the fast loop: a sleep, a scan, and what the pass has spent, which stays below the budget
wherever a ping may start and exceeds it by one ping at most. `ScansAreApart` and
`AnchorHolds` are action properties: `ScanInv` relates the time since the networks were
found to the time until the next scan (a scan that failed or found nothing is followed
by the next as soon as the medium loop runs, and the theorem does not speak of it), `AlignInv` says what the fast loop found before
the radio is moved.

**RegistryProofs.** `PresenceAgrees` needs `ProbeInv`: what the loop thread probes stays
present until it is measured, because the thread that sweeps is the thread that probes.
`ChoiceSurvives` needs `JobInv` and `FileInv`: while persists do not overlap, one thread
at a time writes, the inode it writes is not the one the state file names, and its
snapshot holds every mode that is settled and the one it was called for.
`InodeIsFree` is the counting argument that there is always an inode to open.

**LanOutProofs.** `ServerIsAlone` follows from `QuietInv`: of a port that was left alone,
a server is about to be started or a drop-in exists only on a segment without an owner.
It covers the reload for one port that takes up the drop-ins of all, and a dhclient that
fails on an owned segment. `RoleMeansServer`
adds `ServedInv`, that a verdict of LAN_OUT which still waits for the medium loop
already has its server.

**EstimatorProofs.** `TrustFades`: `HonestInv` says the same of the state file as of memory,
with the age that was written in the place of the age by the clock; a restart adds the
time since to both sides (`HalvedLater`), which needs that halving twice is halving for
the sum of both spans (`HalvedTwice`) and keeps its order. `FloorHolds`: since a reading
of this process a counter has grown by no more than rate times time (`Within`), across
unplugging and resets, so what is divided by the time is at most the rate (`RateBound`),
and the moving average stays between what it averages (`EwmaBound`).

Assumptions, each named in the module that declares the constants: `TelemetryAssumption`
(positive periods, a pause no longer than the interval), `ProfilesAssumption`,
`WorldsAssumption` (types, and presence agrees with health, which `PresenceAgrees`
proves of the registry), `DemandsAssumption`, `ThresholdsAssumption` (naturals, a
positive activation dwell), `NoneAssumption`, `DataPlaneAssumption`,
`FabricAssumption`, `DeviceAssumption`, `LoopAssumption`, `RegistryAssumption`,
`LanOutAssumption` and `EstimatorAssumption` (finitely many request threads and
connections; Python's `None` and the contents of a broken file differ from every value
they are compared with). Two are facts of arithmetic that hold for every finite set and
are out of the prover's reach because they take an induction over data:
`CapacityAssumption` (the sum of naturals over the pool is a natural) and `SumAssumption`
(connections that are each behind an interface of their own deliver no more than the sum
of their rates). TLC evaluates all of them on every instance.

**Only model-checked.** Everything temporal under fairness (`DiskCatchesUp`,
`EveryPortIsClassified`, `KernelConverges`, `TunnelFollowsPrimary`, `ConflictEnds`,
`DeadIsNoticed`): liveness and `ENABLED` are beyond the installed provers. Every
invariant that a passing run checks is a theorem too. The queue of `Loop`'s `TypeOK` is
what a filter leaves of a sequence, which takes an induction.

## 5. Not modelled, and why

- lan, logging, command line, watchdog notification, and of the configuration what is
  neither an address nor a period: text and glue without state of their own;
- the API's other endpoints, the UI, `tunnel.status()`, the LED, the counting of clients
  over a channel switch, the bufferbloat figure: they read and render;
- `hal/linux.py` beyond DHCP, scan, channel switch and counters: it parses the output
  of tools, and what it finds is an input of the models;
- the system files an update copies in place, which no rollback takes back;
- the order in which an SD card persists what is written to it;
- netmon: a separate tool that shares no state with the appliance;
- provisioning and CI scripts: run once by a person or by CI.

## 6. Disagreements

Checked by a run each, quoted in `PROJECT.json`:

1. `device_watchdog`: the watchdog asks 127.0.0.1 (`watchdog.sh:51-56`), the daemon
   listens on `api_host`, by default 10.44.0.1 (`config.py:131`): at the default a
   working release is rolled back after its update.
2. `loop_starvation`: one answered ping uses up the deployed budget, every pass begins
   with the same connection, and the second NORMAL connection is never pinged
   (`probe/__init__.py:311-317`, against `config.py:104-105`).
3. `fabric_restart`: with the volume, appliances are said to stay attached over a
   restart of the container; the new interface has no peers.

Met while modelling, and not the subject of a run:

- **Allocator.** Recovery is said to need a surplus sustained past `recovery_dwell_s`
  (`allocator/__init__.py:154-155`); BACKUP is taken out of use on the first recovered
  sample (132, 186), and the dwell guards a state in which it is already out of use.
  190-195: from RELEASING a sample that is merely not recovered starts the activation
  dwell, which the comment at 154 says needs a deficit; `transitions` (107) counts the
  end of RELEASING, not the release; `Allocation.key()` leaves `quiesced` out, so such
  a change is not recorded (ADR-009), and an outage recorded before a BACKUP began to
  arm stays the newest record while it arms (402-405); ceilings on the primary are cut
  from the sum of the pool (274-280, ADR-004).
- **Registry.** `atomics/registry.py:413`: overlapping persists share one temporary
  file and can leave a state file that is not JSON, against
  `tests/test_registry.py:421-423`; 415: the older of two snapshots may reach the disk
  last; 316: a port set to UNUSED by hand that never had carrier gets no row; 416: a
  failed write is not reported; 457-459: a wall clock behind at load understates ages;
  `daemon.py:446` assigns `updated.quality` in place, against the rule of
  `registry.py:346-348`.
- **LAN-out.** `hal/linux.py:714`: a tcpdump that is missing or refused the capture
  reads as silence, and a server starts on a live network, against
  `lanout/__init__.py:20-22`; 766: one reload takes up every drop-in, also of a port
  whose own start failed; 584: the port's own server address is taken for a lease;
  `lanout/__init__.py:160`: a LAN_OUT port that is replugged elsewhere is no candidate;
  256: a lease found after a restart overrides the user's mode; `hal/linux.py:765`: a
  failing `ip addr add` is ignored, also when it is not the "File exists" the comment at
  761 speaks of, and the port becomes LAN_OUT without an address to serve from; 766: a
  reload that is killed after it took effect leaves a server on a port called WAN.
- **Enforce and tunnel.** `enforce/__init__.py:213`: every table leads into the one
  tunnel, so the best-effort rule of the time NORMAL was primary carries best effort
  over the BACKUP once the tunnel has moved there (against `architecture.md:155`), and
  with a NORMAL primary an active BACKUP carries nothing; 420: convergence is judged on
  pairs that cannot tell LAN-out ports apart, so a port that becomes LAN_OUT while the
  rest is converged is not marked; `tunnel/__init__.py:424`: after a replug `bind_to`
  reports success and installs no route, against its docstring (419-421), and the
  endpoint follows the default route of whichever link the main table prefers; 449: an
  `ip route replace` killed by its timeout after it took effect is taken for one that
  left the previous path in place (420-421), and a move back to the connection
  remembered then does nothing; 203-217: a gateway that could not be read is taken for a
  link without one; `enforce/__init__.py:948`: an upload of zero is shaped without a
  limit, reads back as no shaper, and the state never counts as converged, so it is
  applied in every pass; 728-730: the redirect of ingress is never read back, and is not
  repaired while the rate on its IFB device is right; `daemon.py:492`: without a primary the tunnel
  stays on a connection that is quiesced; 219: the attach is tried once per process.
- **Probe and discovery.** `probe/__init__.py:86-92`: a quiet window stores the decayed
  confidence and keeps `measured_at`, so the next decays it by its full age again: the
  half-life is a few minutes in effect, against line 70; 126 and 147: the
  last counters are kept by connection, so a network that returns to the shared wlan0
  is credited with what another carried, and a window that spans an absence drags the
  estimate down; `daemon.py:432-436`: a pass is bounded by the budget plus one timeout,
  not by the fast cadence; 457-463: a connection that was not pinged, or whose ping
  could not be run, is GOOD; a connection made BACKUP in the middle of a pass is still
  pinged in it; `discovery/__init__.py:83-88`: a scan that finds nothing leaves no
  cache, one that fails leaves the deadline in the past, and after either the next
  medium loop scans again.
- **Radio.** `radio/__init__.py:182`: one refused switch ends switching for the life of
  the process, also for channels that would be accepted.
- **Telemetry.** `telemetry/__init__.py:81-82` and ADR-010:35 say a power cut costs at
  most one flush interval; the two gates (236) make it up to two and two passes, which
  is what `LossIsBounded` states; 191-195: stored decisions are sorted by a wall clock
  that may go back.
- **Device.** `bootcount.sh:45`: the script waits for the restart of a service that is
  ordered after it, so the daemon does not start in the boot that performed a reset,
  against ADR-015:47; `update_script.sh:47-51`: an update to the version that runs, or
  to the one `previous` names, removes that slot first; 70-77: a cut between the swap
  and the write of `previous` leaves an update that cannot be undone; 74-75: `healthy`
  is written and never read; an update beside the watchdog of a fresh boot moves the
  same link without a lock (`watchdog.sh:127`).
  `update_script.sh:51-52`: an update back to the slot `previous` names, cut or failing
  after its `rm -rf`, leaves nothing to go back to: `watchdog.sh:102` refuses, and a
  condemned release stays; cut while it unpacks, the watchdog links half a release.
  `watchdog.sh:43-48` reads `api_port` at once, `__main__.py:123,167` at the start: a
  port edited under a running daemon condemns a release that works, against
  `watchdog.sh:40-42`; 125: a stamp that cannot be written ends the script before the
  rollback. `bootcount.sh:29`: a cut or a failing write between emptying and writing
  the counter makes the count start again, and half of a reset that was cut before
  stays; 30: a log line that cannot be written ends the script before the detached clear
  starts, so that the counter grows on long boots, against 49-51 ("runs detached and
  unconditionally"). `firstboot.sh:159-170`: a key file left empty by a cut, or by a `wg
  genkey` or `tee` that failed, passes the test of the next boot, which touches the
  sentinel: the device has no key for ever.
- **Fabric.** `wireguard.py:138`: two workers that start without a key file generate
  one each, and the later one's `wg set` makes the key the other handed out worthless;
  314: the private ranges in `allowed-ips` move to the peer configured last;
  `peers.py:88`: a peer file that cannot be read becomes an empty registry, and
  addresses in use are issued again (the premise of `NoSharedAddress`).

## 7. Plan

1. Fabric: the private ranges of `allowed-ips`, and DataPlane's tunnel composed with
   Fabric's peers; LAN-out ports in DataPlane.
2. An abstract specification of "what carries traffic" that Allocator and DataPlane
   together implement.
