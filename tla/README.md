# OpenCCU-Loom: verification of the alarm and connection core

OpenCCU-Loom is a Go daemon between Homematic CCUs and MQTT, REST, WebSocket,
Matter and MCP clients. This directory holds TLA+ models of its core logic, TLC
configurations that check them on small instances, and TLAPS proofs that hold for
every instance. Modelled are the parts with the most concurrency and with promises
that must survive crashes, lost messages and failing devices: the alarm engine with
its siren driver (`src/internal/alarm`), the way of a command to the CCU
(`src/internal/client`), the recovery of a lost connection
(`src/internal/central`), and the optimistic writes of a data point
(`src/internal/model`).

## 1. The system and its parts

| Part | State it keeps | Operations | Interacts with | What is hard | What makes it correct |
|---|---|---|---|---|---|
| Alarm engine (`alarm/engine`) | per zone: state, mode, bypasses, baseline, incident, one state timer, auto-rearm timer, settle timer, hold timers, group hits, walk test; durable: `alarm_state` row, `alarm_incidents` | arm, disarm, silence, panic, walk test, sensor, health and connectivity events, timers, reload, stop, start | stores, output port, sensor reader, service | timers beside verbs, restore after a crash at any point, partial writes, residue of earlier alarms | one incident per alarm, bounded output, durable silence and disarm, no lost opening, every alarm ends |
| Alarm service (`alarm/service.go`, `inputs.go`) | indexes, interface reachability | event routing, reconciliation, reload | engine, siren driver, central | unlocked snapshots, events against model reads | an adopted alarm is bounded |
| Siren driver (`alarm/outputs`) | acoustic ledger, activations with their watchdogs, claims on shared channels, failures | fire, stop, adopt, test, shutdown, watchdog and verification callbacks | devices, engine | lost stops, retries against a new cycle, shared sirens | no sounder latched with nobody to stop it, noise bounded per incident, noise ends |
| Codes (`alarm/codes`) | codes, failure counters, lockouts, verify memo | verify, duress match | engine verbs | the check runs outside the engine lock | no verb on a stale verdict, bounded guesses |
| Client reliability (`client/reliability`) | single flights, circuit, probe slot, retry chains, permits and heap of the throttle | call, record, probe, acquire, release, close | transports, coordinators | a leader that leaves, cancellation against wake-up, half-open probes, close during back-off | permits conserved, one execution per key, no invented success, every call returns |
| Interface client, central state machine, connection recovery | connection states, callback ages, attempts, recovery runs, central state | probes, recovery runs, heartbeat, reconnect requests, evaluation, stop | CCU, event bus, scheduler | silent loss of the registration, exhausted attempts, unlocked evaluation, shutdown | runs are serial, the interface comes back, the central settles, stop ends |
| Data point, optimistic tracker (`model`) | confirmed value, optimistic value, anchor, pending sends, rollback timer | write, confirm, roll back, sweep | clients, callback server, scheduler | two locks, missed events, late rollback | no invented state, the display settles, writers return |
| Event bus, scheduler | subscriptions, queues, jobs | publish, subscribe, run | everything | unsubscribe during delivery, overlap | order, no call after unsubscribe |
| REST/WS/MQTT and the other adapters | sessions, client queues, idempotency cache, retained topics | requests, broadcasts | model, alarm | retries during the first run, slow clients | at most one execution, bounded queues |
| Pairing, history, stores, auth, config, tools | their own tables | see source | | mostly I/O | |

`PROJECT.json` lists every part with its status and the reason when it is not
modelled, and under `hazards` what in this code is hard to test, each with the
properties that would catch it going wrong.

### How the alarm core works

A zone is `disarmed`, `arming` (exit delay), `armed`, `pending` (entry delay) or
`triggered`. All entry points take one mutex and write the zone's row before they
release it. An alarm has an incident row that counts re-trigger cycles and re-fires
after restarts. A hazard or panic sensor triggers in any state; the state it
interrupted is kept as the *pre-trigger tuple* and the zone returns to it. After an
intrusion alarm the zone is disarmed (with an optional auto-rearm) or returns to
armed. `Start` rebuilds every zone from its row by a restore table with one branch
per state, under the verdict of a clock plausibility check. The concept document
(`src/notes/concepts/alarm-concept.md`) calls the durable promises S1 to S7.

The siren driver charges an acoustic ledger before it tells a device to sound, gives
each activation a watchdog that stops it and verifies the stop, and keeps the rows
that claim a channel which several zones share.

### How a command and a connection work

`InterfaceClient.Call` runs a command through `Coalescer.Do` (concurrent callers with
one key share one execution), `CircuitBreaker.DoWithPriority`, `Retrier.Do` and, per
attempt, the priority semaphore `CommandThrottle`. Two probes watch each interface;
what they find makes the recovery coordinator start a run (check, reconnect, load),
at most one per interface, and the central's state is evaluated from all of it. A
write to a data point shows its value at once; an event or the periodic sweep
confirms it, an error or a 30 s timer rolls it back.

## 2. Modules

| Module | Models |
|---|---|
| `AlarmZone` | the arm-state machine of one zone, its stores, crashes and restarts, its environment, and its properties |
| `AlarmClaims` | two statements of the comments and the concept that the code does not keep |
| `AlarmHistory` | `AlarmZone` plus the history variable `off` (the last arm or disarm verb was a disarm) |
| `AlarmReconcile` | `AlarmZone` composed with the reconciliation pass of the service |
| `AlarmOutputs` | the siren driver |
| `PermitPool` | abstract specification: users take, return and pass on at most `Permits` permits |
| `CommandThrottle` | one pool of the throttle; refines `PermitPool` |
| `CommandPath` | the call path: coalescer, circuit, retries, `Close`, around `CommandThrottle`; refines it |
| `ConnectionRecovery` | client state, probes, recovery coordinator, evaluation of the central state |
| `DataPoint` | optimistic tracker, write, confirmation, rollback and sweep of one data point |
| `AlarmZoneProofs`, `AlarmZoneModes`, `AlarmZoneLedger` | the theorems about `AlarmZone`, each extending the one before |
| `AlarmOutputsProofs`, `CommandThrottleProofs`, `CommandPathProofs`, `ConnectionRecoveryProofs`, `DataPointProofs` | the theorems of the other parts |
| `MC...` | instances for TLC |

### Correspondence of `AlarmZone`

*State.* `zone` is the struct `zone` of `zone.go` without its display fields;
`view` and `trouble` are the fields of `sensorState`; `hold` the running hold
timers; `cfg` what `loadConfig`/`Reload` took from the stores (`stored`); `row` and
`db` the two tables; `horn` the last acoustic command to the output port; `world`,
`events` and `ready` the real sensors, value-change events on their way, and
whether the channel model knows values; `life` whether the process is down,
started or stopped. `fired` and `hushed` are history variables.

*Handlers.* Every function of the engine that changes a zone is an operator on the
record `eng` that returns the record the function leaves, with the sub-handlers in
the code's order (`BeginArm`, `CompleteArm`, `Trigger`, `OnTriggerElapsed`,
`FinishAlwaysOn`, `RestoreTriggered`, ...). An action takes the guard of the entry
point and installs the result with `Becomes`. `HandleSensorEvent` is split into one
action per branch.

*Failing writes.* Each handler has a parameter `f`, the set of writes that fail in
it: to the incident row, its close, the state row. The code logs and goes on from
memory, and so does the model. Since a crash between two writes leaves exactly what
a handler with failing later writes followed by a crash leaves, this also models
crashes inside a handler. `CrashInSilence` is the one that leaves a siren sounding.

*Timers.* A countdown is the name of the running timer; it may fire at any time
while it runs. The sequence numbers with which the code discards a cancelled
callback are abstracted into that rule.

*Data.* Durations are zero or positive; ids are numbers in creation order; causes
are the sensor or none. Journal, events, chirps, ticks and the source ledger have
no influence on control and are left out.

*Restore.* `plausible` is the verdict of `clockPlausible`, `elapsed` whether the
persisted deadline has passed, `readable` whether the incident table answers, `rdy`
whether the sensor reader knows values when `Start` runs: all are chosen freely.

### Correspondence of `AlarmOutputs`

*Threads.* `op["engine"]` is the goroutine that holds the engine lock and walks the
rows of a `FireCycle` or `StopAll`; `op["side"]` one without that lock
(`StopUnowned` and `AdoptBounded` of the reconciliation, `TestFire`). Each activation
record is a thread of its own (`act[a]`): a pending timer, which `cancel` reaches, or
a callback on its way, which it does not. `Shutdown`, `StopWatchdogs` and the stop of
the engine are separate steps, as in the service.

*Faults.* A device write may be applied and answered with an error, be refused, or be
accepted and lost on the radio; the ledger's reads and writes may fail; a read-back
sees the device or nothing. A scenario says which rows exist and how many cycles,
side operations and faults happen.

*Assumptions.* `Prompt`: the write that starts a sounder returns before its own
watchdog is due (the run assumes it; no theorem does). One incident per zone
(`incident`), opened by its first cycle or its adoption. A cycle whose ledger read fails
falls back on a snapshot that is never charged: `LedgerCovers` excludes such zones
(`blind`) from the bound by the budget and not from the coverage by the ledger.

*Incidents without a row.* When the row of an incident cannot be created
(`openIncident`, a fault), the incident has the id 0 (`"rowless"`). For it the driver
reads and charges no ledger (`manager.go:353`, `372`, `reconcile.go:92`): each cycle has
the whole budget. An adoption of it puts the zone in alarm and arms no watchdog
(`service.go:676`). `LedgerCovers` says nothing of such an incident; the other
properties hold with it.

### Correspondence of `CommandThrottle` and `CommandPath`

`stage[c]` is where goroutine `c` is inside `acquireFor`; the heap is the set of
queued goroutines with their arrival order. One step is one critical section, so a
wake-up, a cancellation and a `Close` may fall between any two of them. In
`CommandPath` a call has two parts that may run apart, the caller and the execution
it started, because an execution outlives a leader that leaves. Errors are abstracted
to what the layers tell apart (`failed`, `spared`, `rejected`). `Reset` of the circuit
is two steps, as the code stores the probe flag after it has released the lock. `Clear`
empties the map of the coalescer in one step and then goes through the calls it took
out (`abandoned`): each is settled, then cancelled, before the next. Where the last
participant leaves, the cancellation after the unlock belongs to the step: only the
execution reads that context, and nobody waits for it any more.

Nobody in the daemon calls `InterfaceClient.Close` (the `StopFunc` of a client entry
is never set, so step 3 of the central's `Stop` finds nothing); it is modelled as an
operation of the type. Not wired and not modelled: the recovery waiter and the keyed
retry chains, the burst window and `Purge` of the throttle, `Enable` and `Disable` of
the circuit.

### Correspondence of `ConnectionRecovery`

A run of the pipeline is in a slot of its interface and goes through queue,
registration, check, reconnect with its back-off, load and the deferred removal of
the registration. An event is dispatched by the goroutine that publishes it, so the
evaluation of the central state and the triggers belong to the publishing step; the
health job reads and sets in two steps. The environment takes the CCU away, makes it
come back with or without its registrations, refuses an `init`, and asks for a
reconnect by REST. Ages of callbacks are `never`, fresh or stale.

*Assumptions.* The two probes take turns on an interface; a re-init does not fall
between the read and the set of the health job; the probes and the CCU rest after
`Stop`, reconnect requests may still come. An interface without PONG, or one that never delivered a callback, cannot
notice a registration that was lost silently: `Noticeable` says so.

### Correspondence of `DataPoint`

Tracker and data point have a lock each and nobody holds both: each critical section
is one step. Values are compared by equality (`valuesClose`). The CCU delivers events
one at a time and in order; a missed event stands for a lost callback or a device that
only reports where it ended. The sweep reads the CCU's value and applies it later, as
an event is. The path of data points without optimistic state
(`OptimisticDisabled`), the collector that batches writes (its `Send` is the same
dispatch and rollback) and the unconfirmed-value slot are left out.

### Bounds

`AlarmZone`: `MaxIncidents`, `MaxRestarts`, `MaxFaults`, `MaxWrites` bound the
counters in the guards; `Conditions` and `FailingWrites` select the troubles and
failing writes that occur. Two incidents are enough for one alarm to leave a residue
that the next one meets; two restarts for a residue of a restore to meet another
restore; one failing handler because the handlers that share a fault's consequence
follow it. The run `faults` stores one incident, since failing writes and conditions
multiply its states; its second alarm is the one whose incident write fails.
`LoopBreakerK` is 1 instead of 3 so that two restarts pass it.

`AlarmOutputs`: two zones that share a sounder, a siren with its flash, and a socket;
up to two cycles, one side operation and one fault in combination; the budget is such
that the second cycle exhausts it; one verification round; three activation records.

`CommandPath`: two calls that coalesce and a critical one that does not, a pool with
one permit and a queue of one, two attempts, a circuit that opens at the first
failure, one disruption (`command`) or two (`command_live`, two calls, one with a
deadline and with pacing). One permit makes every hand-over contended; the proofs
cover every other capacity.

`ConnectionRecovery`: one interface (two exceed twelve million states), two runs of it
at a time, two attempts, two disruptions. The interplay of two interfaces is only
that of the central state, the worst of them.

`DataPoint`: two values, one writer with two writes, one upset (a missed event, a
clamped value or a change at the device). Two writers exceed eight million states;
the proof covers any number.

## 3. Runs

Passing:

- **faults** (`MCFaults`): a zone that disarms and re-arms after an alarm, one
  restart, one handler with any failing writes, reachability and battery flags that
  change at any time. `TypeOK`; `IncidentIffTriggered` (triggered exactly while an
  incident is held); `SilencedNeverSounds` (S3: no sound for an incident silenced in
  memory, in its row or by the marker in the state row); `ModeMatchesState`;
  `NothingBypassedSilently` (what blocks an arm on current values is on its bypass
  list).
- **restart** (`MCRestart`): a zone that returns to armed, with a pre-alarm, and two
  crashes or stops anywhere. `TimerDiscipline`, `NoPreTriggerResidue`, `CycleBound`
  (S1), `RowIsCurrent` (write-through), `OpenIncidentHasOwner`, `StaysOff` (for a
  zone without auto-rearm), two action properties of `Start`, `RestartSeesOpenings`
  and `RestartKeepsProtection`, and under fairness `IncidentsClose` and
  `EntryResolves`.
- **sensors** (`MCSensors`): a cross-zoning group of a held door and a motion
  detector. `VerifiedAlarm`.
- **reload** (`MCReload`): a door of one mode and a smoke detector; one configuration
  write to any subset of sensors and modes. `ReferencesAreConfigured`,
  `RearmOnlyWhileOff`.
- **reconcile** (`MCReconcile`): the pass in three steps beside the zone, and a siren
  that a direct link may sound at any time. `TimerDiscipline` in the composition.
- **outputs** (`AlarmOutputs`): `SounderGuarded` (a latched sounder has a stop under
  way or to come, a failure on record, or a row whose zone is in alarm and so a
  `StopAll` ahead), `LedgerCovers` (for incidents that have a row),
  `StopAllSparesOthers`, and under fairness `NoiseEnds`.
- **command** (`CommandPath`): `PermitsConserved`, `NoIdlePermit`,
  `OneExecutionPerKey` (except next to a call that `Clear` has yet to settle),
  `WaitersAreServed`, `NoInventedSuccess`, `OpensOnEvidence`, `SlotHasOwner`, and the
  refinement `ThrottleInPath`.
- **command_live** (`CommandLive`): `EveryCallReturns` under fairness.
- **connection** (`Connection`): `RunsAreSerial`, `StopLeavesNothing`, and under
  fairness `InterfacesComeBack`, `CentralSettles`, `ShutdownEnds`. Deadlock is not
  checked: after `Stop` the coordinator ends.
- **datapoint** (`DataPoint`): `NoInventedState`, and under fairness `DisplaySettles`
  and `WritersReturn`.

Disagreements between a statement of the repository and its code, each with the
shortest behaviour (`PROJECT.json` quotes the lines):

- **claim_swallow**: a `Reload` (or a refused arm) reads a door's new value before
  its event arrives; the event is then a repetition and the armed zone never answers.
- **claim_healthy**: the health job reads that no interface is recovering, a run
  registers itself and its event makes the central DEGRADED, and the job then sets
  RUNNING over it.

Further disagreements met while modelling. The named ones are definitions of the
modules that TLC finds violated; they are not kept as runs.

Alarm:

- `StoppedEngineIsQuiet`: `Stop` does not cancel hold timers; one that elapses later
  starts an entry delay and overwrites the final snapshot (`engine.go:358`).
- `OffZonesAreNotAdopted`: a disarm between the snapshot of `reconcile` and
  `AdoptSounding` puts the disarmed zone into alarm (`service.go:651`).
- `ModeMatchesState` with post-trigger `return_to_armed`: a hazard alarm of a disarmed
  zone whose incident cannot be read on restart ends *armed in mode "disarmed"*
  (`restore.go:528`). The run *faults* uses the policy `disarm`.
- `StaysOff` with auto-rearm: a panic and two restarts bring back a rearm the
  operator's disarm should have ended (`restore.go:560`).
- `OthersKeepSounding`: `StopUnowned` decides on the claims and writes OFF without the
  engine lock; a fire of the other zone in between is silenced (`arbitration.go`).
- `SilentAfterShutdown`: a cycle that runs while `Shutdown` collects the activations
  leaves a latched sounder behind (`watchdog.go`).
- A refused arm cancels a pending auto-rearm in memory and returns without a write
  (`engine.go`, `beginArm`), against the write-through statement at the type `Engine`.
- An arm verb on an armed zone replaces the bypass list, so a `bypass_auto` sensor
  that is still open is included again before "the next disarm" (`config.go`).
- A hold timer started during the exit delay alarms for a door that is in the
  open-at-arm baseline by the time it fires.
- A mode deleted while the daemon is down is restored armed without configuration,
  while `Reload` disarms in the same situation.
- `reEvaluateAfterRestore` routes the first open member of a cross-zoning group.
- A door open since before an arm that happened before the channel model was
  populated alarms when the model is complete, although it may stay open.
- "The cumulative acoustic budget of one incident" (`manager.go:37`), "across all
  re-triggers and restarts" (`docs/reference/configuration.md:40`), does not bind an
  incident whose row could not be created: `acousticBudget` and `reserveAcoustic` pass
  the id 0 by, and two cycles sound twice the budget. TLC shows it with `LedgerCovers`
  over all zones. An adoption with that id arms no watchdog; the alarm's `StopAll` is
  what ends the noise.
- The silent override of a silent panic is not persisted: after a restart the
  incident is re-fired with the configured policy (documented at the function).

Command path:

- `SingleProbe`: "only one probe is allowed at a time" (`circuit.go`): `Reset`
  stores the cleared flag late, over a probe that has started since, and a second one
  starts.
- `MinimumGap`: "the minimum gap between consecutive non-critical Acquire completions"
  (`throttle.go`): two goroutines that pass the test of the
  delay before either acquires complete together.
- "Do runs fn only once per concurrent key" (`coalesce.go:142`): `Clear` takes the calls
  out of the map before it settles them, so a caller that passed the test of `closed`
  starts a second execution next to the first. TLC shows it with `OneExecutionPerKey`
  without its last disjunct.
- `ChainsCancelled`: `Close` "cancels all in-flight retry chains"
  (`interface_client.go`): chains are only known under a key that nothing sets, so a
  chain in back-off makes its next attempt.

Connection:

- A run is still registered when it reports its success, so that evaluation says
  DEGRADED and the central waits for the health job. The comment at `central.go:1289`
  says that the next change of a client re-evaluates; there need be none.
- A reconnect request by REST is neither gated by the bring-up nor by `Stop`, and
  `Stop` does not wait for it; its context cancelled in the back-off leaves the client
  RECONNECTING.
- STOPPED is not terminal for the forced transitions of the central.

Data point:

- `RestoresConfirmed`: `rollback` is to flip the display "back from optimistic to
  confirmed" (`datapoint.go`). It restores the anchor read at the first write of a
  burst: after an event for one write of the burst, or an event that comes between the
  rollback and its store, an older value replaces the confirmed one. `DisplaySettles`
  shows that the sweep repairs it.

### Fairness

*Alarm.* `Fairness` (used by `FairHistorySpec`) has three conjuncts, each weak
fairness of one action with its guard written out: a running state timer fires
(`time.AfterFunc`), a process that ended is started again (service manager), and a
stop ends the process. The entry delay's timer is only required to fire while the
incident bound leaves room for its alarm. Nothing is assumed of verbs, sensors or
other timers.

*Outputs and command path.* Weak fairness of all work together: some goroutine or
timer that can proceed does. No thread is promised its turn while another can
proceed. In `AlarmOutputs` the engine also ends its alarms, which `IncidentsClose`
shows of the zone. The transport returns because its HTTP client has a deadline.

*Connection.* Goroutines run, tickers tick, a CCU that answers and knows us sends its
PONG. That the CCU stays back and nobody stops the daemon is a premise of the
properties.

*Data point.* Goroutines run, wire calls return, timers fire, events and the sweep
arrive. Nobody has to write.

## 4. Proofs

All hold for every value of the constants under the assumptions the modules name
(`ConfigAssumption`, `OutputsAssumption`, `ThrottleAssumption`, ...); TLC evaluates
them in each run.

**`AlarmZoneProofs`**: `TypeCorrect` (`TypeOK`), `IncidentLifecycle`
(`IncidentIffTriggered`), `TimersMatch` (`TimerDiscipline`), `ControlInvariant`.
`ControlInv` is these three and `Unlinked(row)`: a stored row that does not say
triggered names no incident. The last part is needed for restarts: `LoadRow` takes the
incident from the row, and a row that said armed with an incident would restore an
armed zone holding one. It is invariant because rows are only written from zones for
which `IncidentIffTriggered` holds, and a handler that changes state and incident
writes the row after both changes. `Typed(e)` says that an engine record has the right
shapes; `Linked(e.z)`, `Clocked(e.z)` and `Unlinked(e.row)` are the parts of the
invariant about a record; `Sane(e)` is the conjunction at rest. There is one lemma per
handler operator that says what it keeps (several hold only in the middle of a
handler, such as triggered with no timer) and one per action.

**`AlarmZoneModes`**: `ModeInvariant`, and from it `PreTriggerCleared`
(`NoPreTriggerResidue`), `RearmBehindOff` (`RearmOnlyWhileOff`), `RowKeptCurrent`
(`RowIsCurrent`), `ReferencesPruned` (`ReferencesAreConfigured`), and the action
properties `BypassesAreListed` (`NothingBypassedSilently`), `OpeningsSurviveRestart`
(`RestartSeesOpenings`) and `GroupNeedsTwo` (`VerifiedAlarm`). The handlers are many
and nested, but each makes one of eight moves on the zone (`Moves`: it rests, arms,
settles, pends, alarms, is interrupted by an always-on alarm, disarms, returns to
armed) and leaves the row as it was or as the zone now is. The lemmas about the
handlers say which move each makes; the properties are preserved by the moves. The
invariant `ModeInv` needs the same of the row as of the zone, since a restart turns the
one into the other: `Moded` (what a disarmed state, the pre-trigger tuple and a pending
rearm exclude) holds of both whatever fails, `Matched` (the mode fits the state) of
both under the condition of `ModesMatch` below, `Refers` of the zone until the first
restart, `Current` while no write has failed.

**`AlarmZoneLedger`**: `LedgerInvariant`, and from it `CyclesAreBounded`
(`CycleBound`), `OpenRowsAreOwned` (`OpenIncidentHasOwner`), `ModesMatch`
(`ModeMatchesState`), `SilencesHold` (`SilencedNeverSounds`) and the action property
`ProtectionSurvives` (`RestartKeepsProtection`). `CycleBound` counts what the outputs
were told and says nothing of the counters by which the code decides; `Tally` says that
the cycles of an incident are at most those its row accounts for, that memory and row
count alike, and that a pre-alarm has had one cycle only. `Owned`: the open row is that
of the zone's incident; while the process is down this becomes `Tidy`, the same of the
state row. `Hushed`: a silence in memory or in the state row is on the incident row
too. `Muted`: a silenced incident does not sound. Each is shown for the primitive
operations and composed along the handlers (`Books`). `DisarmIsDurable` (`StaysOff`, of
`HistorySpec`) adds `KeptOff`: a zone the operator turned off has no mode, in memory or
in the row, and, by `LedgerInv`, no rearm is planned in either; of the moves only arming
gives such a zone a mode, and of the handlers only that of the arm verb then arms. Four
statements carry a condition, because without it they are false:

- `ModesMatch` holds while no write has failed, before the first restart, or under
  the policy `disarm`, and `ProtectionSurvives` without failing writes or under that
  policy: the disagreement `ModeMatchesState` of section 3.
- `SilencesHold` has two parts. A silenced incident never sounds in memory,
  whatever fails. What the durable records say is respected unless a write to the
  incident table has failed: three handlers whose write to it fails can lose a
  silence. The run *faults* has one such handler.
- `DisarmIsDurable` holds without auto-rearm and while no write has failed: with it, the
  disagreement `StaysOff` of section 3; after a failed write, the row a restart reads
  may still say armed.

**`AlarmOutputsProofs`**: `LedgerIsCovering` (`LedgerCovers`). The property says
nothing of the charge that is on its way to the device, nor of the allowance read at
the start of a cycle; `LedgerInv` adds both: what was sounded plus what is charged and
not yet sounded is covered, and together with what the cycle may still charge it is
within the budget. Like the property it speaks only of incidents that have a row, and
an incident never gets or loses its row. `SoundersAreGuarded` (`SounderGuarded`) and `StopAllSpares`
(`StopAllSparesOthers`) rest on `Watch`: `Wired` (which records, processes and rows
belong together), `Claimed` (a claim belongs to a zone in alarm or one whose `StopAll`
has not come to it yet; a `StopAll` past its decision has found no other claim) and
`Guarded`, which is `SounderGuarded` without the guards that end with no successor: a
chain that was replaced, a pass of `StopUnowned`. `WatchInvariant` states `Watch`
without the ledger. Neither needs `Prompt`. The proof
also showed that a claim on the channel is no guard: the side pass releases the claim
of a row, a cycle fires it, its watchdog goes due, the pass replaces it and sees the
channel off; the other zone fires the shared channel, and the late callback, its OFF
lost on the radio, releases that claim. The sounder then has no watchdog and no claim,
and only the `StopAll` of the zone in alarm ends it. `SounderGuarded` therefore counts
the alarm, not the claim.

**`CommandThrottleProofs`**: `PermitAccounting` (`PermitsConserved`), `NoPermitIdle`
(`NoIdlePermit`), `CapacityBound`, `CloseDrains`, and the refinement `ThrottleIsPool`
(`PermitPool`). Every step leaves the holders alone, hands out a free permit, gives one
back, or passes one on; the lemmas show which step is which, and invariant and
refinement follow from the four cases.

**`CommandPathProofs`**: `PathUsesThrottle` (`ThrottleInPath`): every step of the path
is a step of the throttle or leaves it alone, because a goroutine is inside the
throttle only while its execution is in an attempt (`Routed`). `PathKeepsPermits` and
`PathIsPool` follow. `SuccessIsReal` (`NoInventedSuccess`) uses `Traced`: a result that
says ok, on its way through circuit, purge and settlement, was reported by the wire.
`SlotIsOwned` (`SlotHasOwner`) uses `Slotted`: only an execution between its admission
and its deferred `Store(0)` probes. `BreakerNeedsEvidence` (`OpensOnEvidence`) uses
`Evident`: the counter of consecutive errors and the state of the circuit rest on
*recorded* failures; the set the property speaks of is not inductive, since an
execution that is still retried may yet succeed and leave it. `KeyRunsOnce`
(`OneExecutionPerKey`) and `WaitersServed` (`WaitersAreServed`) share `Shared`: the
number of participants of an execution is the number of callers that joined it and
have not left, the map of the coalescer holds the one execution of a key that may still
get callers, and a context that ended under a participant ended with its deadline or
together with a result. `Abandoning` adds what `Clear` took out of the map and has yet
to settle or cancel: the exception of `OneExecutionPerKey` is exactly the first.

**`ConnectionRecoveryProofs`**: `RecoveryTypeCorrect`, `SerialRecovery`
(`RunsAreSerial`), `NothingAfterStop` (`StopLeavesNothing`). `Discipline` adds that the
coordinator is stopped before it is gone, without which a trigger could start a run
after `Stop` has returned.

**`DataPointProofs`**: `ConfirmedIsReal` (`NoInventedState`). `Grounded` says that not
only the confirmed value but everything that may still become one has been the CCU's:
the events on the wire, the tracker's anchor, an anchor a writer has read, one a
rollback has taken out, and the value of a confirmation under way.

*Only model-checked:* the liveness properties (`IncidentsClose`, `EntryResolves`,
`NoiseEnds`, `EveryCallReturns`, `InterfacesComeBack`, `CentralSettles`,
`ShutdownEnds`, `DisplaySettles`, `WritersReturn`), which are out of the prover's
reach.

## 5. What is not modelled

Of the modelled parts: several zones of the engine at once (they share only the
mutex); the code check before a verb; `Acknowledge`; the motion reset before an arm;
chirps and ticks; the silent output policy of a mode; the sirens behind the horn of
`AlarmZone` (they are in `AlarmOutputs`, which takes the engine's cycles as input); a
removal of the zone itself by `Reload`; a state token this build does not know
(`restoreZone`, default branch); bring-up without a callback endpoint; what the
sections on correspondence name.

Of the rest of the repository, some three hundred thousand lines: translations of
device parameters (`model/custom`, `calculated`, `combined`, `hub`), encodings and
transports, REST handlers, MQTT topics and discovery documents, Matter clusters, the
configuration and its user interface, SQL stores, command-line tools. They map data
to data without a protocol between actors, and a model of them would restate them.
`PROJECT.json` gives the reason for each part.

## 6. Plan

1. Done: the alarm zone with its claims, history and reconciliation; the siren
   driver; the command path with its abstract pool; connection recovery with the
   client and central states; the data point with its tracker.
2. Proved: the safety properties of the zone, the siren driver, the command path, the
   recovery and the data point (section 4).
3. Models: `AlarmCodes` (a check outside the lock racing arm, disarm and removal,
   lockout counters); a refinement of the zone's timers by callbacks in flight with
   sequence numbers; the event bus (unsubscribe during delivery); the idempotency
   cache; the WebSocket hub's resume; pairing.
