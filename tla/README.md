# Verification of the mobile telemetry control plane

This directory holds TLA+ models of the control plane in this repository, the
TLC configurations that check them and the TLAPS proofs about them.

## 1. The system

The control plane decides what the telemetry SDK inside mobile apps collects.
An operator draws workflow graphs in a browser UI, the UI compiles them into a
policy (a "DSL" document, in a v1 and a v2 dialect) and publishes it to a Go
gateway, and devices poll the gateway for the active policy, send heartbeats
and report events.

| Component | State | Operations | Talks to |
|---|---|---|---|
| Configuration store (`gateway/internal/db/db.go`, `config/manager.go`) | table `config_versions`, one row per published version, one of them active | publish, rollback, read active, list | handlers; SQLite |
| Device registry (`db.go`, `handlers.go`) | tables `devices`, `device_heartbeats`, `otel_configs` | heartbeat (with auto-registration), explicit registration, group change, OTEL config create/activate, rollout status | handlers; SQLite |
| Workflow, targeting, buffer, metrics tables | one table each | CRUD | handlers; SQLite |
| Fleet event pipeline (`gateway/internal/fleet/`) | set of seen event ids, bounded queue, worker goroutines, sliding windows, rules | ingest batch, process, stop | handlers, rule engine |
| Cascade breakers (`fleet/breakers.go`, `budget.go`) | kill switch, cooldown table, per-chain budget | check, reserve, release, engage | cascade code (library, not yet wired in) |
| Cohorts (`gateway/internal/cohort/`) | tables `cohorts`, `cohort_memberships` | create, delete, refresh membership | fleet DB |
| Fleet and audit databases (`db/fleet_db.go`, `db/audit_db.go`) | events; cascade chains, hops, device log | insert, status update, retention | fleet code |
| Push (`gateway/internal/push/`) | device to connection map | register, unregister, deliver | WebSocket clients |
| Rate limiter (`ratelimit.go`) | recent request times per client address | allow, periodic clean-up | HTTP middleware |
| Process lifecycle (`gateway/main.go`) | server, workers, databases | start, signal, shutdown | everything |
| Policy compiler (`control-plane-ui/src/utils/graphToDSL*.ts`) | none | validate graph, compile to v1 and v2 | UI |
| Workflow editor (`WorkflowBuilder.tsx`, `App.tsx`) | local canvas and list of workflows | edit, save, publish, roll back | gateway over HTTP |
| Device and journey views of the UI | last answer of a poll | poll, select, parse a journey | gateway over HTTP |
| Collector configuration form (`CollectorConfig.tsx`) | form; `localStorage` | edit, choose, add, remove, save endpoints and credentials | browser storage |
| Acceptance scripts (`acceptance/scripts/`) | spawned processes, backups of two files of the demo app | boot, edit, publish, confirm, tear down | gateway, UI, emulator |
| Device simulator | list of events | fetch, heartbeat, send | gateway |

The components talk in three ways: HTTP between UI, devices, Collector and
gateway; calls between goroutines of the gateway, which share memory under
mutexes and one bounded channel; and SQL, each statement or transaction of a
handler on a pooled SQLite connection of its own.

### What is hard here

- *Statements and goroutines interleave.* A publish is two updates and a read
  back; a heartbeat is up to six separate statements without a transaction;
  fleet events are counted and evaluated by several workers.
- *Things fail half way.* Any SQL statement may fail, and the handlers mostly
  log the error and go on. The gateway may die between two statements.
- *Locks.* SQLite's SHARED, RESERVED and PENDING locks make rollbacks collide
  with publishes; the breaker keeps a read lock over two steps.
- *Bounds.* The event channel, the memory of seen events, the affected-devices
  budget, the timestamps of a rate-limited client and the sliding windows all
  run full or expire.
- *Stale copies.* The canvas of the workflow builder is a copy of a workflow
  that nothing keeps up to date, and its handlers report what they read before
  the change. Every page of the UI shows whichever answer came last.
- *Requests nobody waits for.* Each edit of a workflow is saved by a request of
  its own, which may fail, overtake another or meet a gateway that is closing
  its databases.
- *Interrupted scripts.* The acceptance scripts edit the developer's files and
  spawn servers that outlive the steps which need them; Ctrl-C and kill come at
  any step, the handlers of signals only where the script awaits something.

### What makes each component correct

| Component | Properties |
|---|---|
| Configuration store | one active version after every interleaving; versions are never lost or changed; each request is atomic to its client; nobody waits for ever |
| Device registry | a device is registered once and stays in its group; what is stored as its version is what it reported; one active configuration per group |
| Fleet event pipeline | an event is processed once while its id is remembered; none disappears uncounted; memory and channel are bounded; workers stop |
| Fleet rules | a burst that reaches a limit fires, however the workers interleave; nothing fires below its limit |
| Cascade breakers | limits hold over concurrent reservations; a halt that has taken effect stops calls already under way; a refusal costs nothing |
| Rate limiter | no window with more than the limit; no refusal without cause |
| Policy compiler | validation means it compiles; both dialects mean the same; the cycle check is exact |
| Workflow editor | what is drawn is saved; what is published is what is shown |
| Workflow table and process lifecycle | nothing deleted comes back; saves are refused only for what is gone; when nothing is under way the page shows what is saved, unless the last save failed or was overtaken |
| Device and journey views | a page never stays busy; a settled page shows what it says it shows; no device, record or picture is lost on the way to the screen |
| Collector configuration form | saved credentials reach all endpoints they are for |
| Acceptance scripts | the developer's files can always be recovered and are put back by a run that ends itself; a confirmation is of a fetch after the publish; what was spawned is torn down |

## 2. Modules

```
ConfigRegistry  <== implemented by ==  ConfigStore   <-- ConfigStoreProofs
FleetPipeline   (worker callback)  -->  FleetRules
FleetPipeline   <-- FleetPipelineProofs
FleetRules      <-- FleetRulesProofs
CascadeBreaker, RateLimiter    <-- GatewayLimitsProofs
DeviceRegistry  <-- DeviceRegistryProofs
Arrays          <-- PolicyCompiler, JourneyParser
PolicyCompiler  <-- PolicyGraphs <-- PolicyMeaning    (every graph)
                <-- WorkflowEditor                    (the graphs a user arrives at)
WorkflowSaves   <-- WorkflowSavesProofs
Acceptance      <-- AcceptanceProofs
Dashboard       <-- FleetView, MonitorView, ConfigView,
                    ReplayView (<-- JourneyParser), CollectorView
                FleetView, ConfigView <-- PageCalls
Dashboard, WorkflowEditor, PolicyGraphs    <-- PagesProofs
```

`MC<module>` instantiates a module for TLC, with one `.cfg` per run. Operators
whose comment starts with "Mutation:" are not part of a specification. Each is
a plausible mistake in the operator that follows it, kept to show that the
property it is named with in `PROJECT.json` would notice.

**ConfigStore** models `PublishConfig`, `RollbackToVersion`, `GetActiveConfig`
and the handlers that call them, one action per SQL statement. `rows` is the
committed table, `dirty[h]` what the open transaction of handler `h` sees,
`pc[h]` the statement it is about to execute. Locks are not variables: which
lock a connection holds follows from its statement. `Busy` is SQLITE_BUSY (at
once for a rollback that upgrades its SHARED lock, after the timeout
otherwise), `StatementError` any other failure, `Restart` the death of the
gateway. `ErrorAnswer` keeps a peculiarity of the code: a rollback reports
every error of its existence query as "version not found".

**ConfigRegistry** is what clients may rely on: a catalogue that only grows, an
active version, and requests that take effect at one instant. `Forget` is a
publish that is committed but answered with an error, because the read back
comes after the commit.

**FleetPipeline** follows a batch through the deduplicator, the channel and the
workers. `CheckDuplicate` and `Ingest` are separate steps of the handler, as
there is no lock around both. `shedCount` counts the events the code only logs
when the channel is full, `completed` is the history of the events a worker is
done with. `Stop` may come while requests are still served.

**FleetRules** is what a worker does with an event: look up its sliding window
(`Lookup` under the read lock, `Create` under the write lock), `Add` the event,
and, once it has the read lock of the rules (`ReadRules`; until then the list may
change), `Evaluate` one rule per step.
Workers take the events in any order. Eviction from a window is left out: it
only removes events that are too old for any count.

**CascadeBreaker** is `CheckAll`: `Check` tests kill switch, depth and cooldown
and keeps the read lock, `Reserve` takes from the budget under the budget's own
lock. The operations that change a breaker wait for the readers. The sum over
`devicesAffected` is written as the number of devices reserved, those of each
chain counted from 1, so that what is known of finite sets applies to it.

**RateLimiter** is one round of `Allow` or of `cleanupLoop` per step, each under
the mutex. `counts[k]` is the slice of a client, `accepted[k]` the history of
all it was ever let through.

**DeviceRegistry** has the heartbeat as six steps (`Lookup`, `AutoRegister`,
`Touch`, `Reread`, `ReadActive`, `WriteStatus`), each of which may fail without
ending the request; registration, group change, creation and activation of
configurations are one transaction or statement each. `ParsesTimes` says
whether the SQL driver returns the time columns of `GetDevice` in a form that
it can scan. The driver in `go.mod` does not. With `TRUE` the model allows both
outcomes at each read, so that it covers either.

**PolicyCompiler** translates `graphToDSL.ts` and `graphToDSLv2.ts` into
operators. A table per group of node types says what each becomes in a
document (`EventMatchers` to `BackendMatchers`, `DeviceActions`,
`InsightActions`, `FleetActions`); a state keeps its name and whether it is
initial, and a node whose trigger an optional parameter narrows keeps whether
it has that parameter. Other parameters are copied along and left out. An
exception is a result that is not `ok`; a gate below itself, on which the code
recurses until the stack is full, is one. The recursions of the code are
recursive functions over the nodes a graph speaks of (`Places`) and what was
visited so far. `hasCycle` marks nodes in two sets that all of its calls share,
so that `Dfs` takes the marks it finds and yields those it leaves (`Marks`), and
`Through` is either of its loops. `Gather` is what `nodeToMatcher` makes of the
nodes below a gate.

**Arrays** has the methods of arrays that the compiler and the journey parser
are built on: `Filter`, `Map` and `SortStable` for `filter`, `map` and `sort` by a
number, as a recursive function, a function and a count. They are written so
that they can be reasoned about; `SetToSortSeq`, for one, sorts by a choice among
all permutations and leaves open which of two equal elements comes first.

**PolicyGraphs** draws graphs edge by edge (`Draw`), in every order, also to
nodes that do not exist, and states what the compilers promise of each.
`After` is the reference for what edges lead to: as many steps as there are
edges. **PolicyMeaning** says what the two dialects mean to a device
(`TriggerHolds`, `Matches`) and states that they mean the same; it is a module
of its own because a matcher is a tree and `Matches` a RECURSIVE operator on it,
next to which nothing can be proved.

**WorkflowEditor** has the two copies of a workflow: `workflows` in `App` and
`nodes`, `edges` in `WorkflowBuilder`. One action is one React event; what it
reports is taken from the unprimed canvas, as the handlers read the closure of
the last rendering. `RemoveNode` is two handlers in one event, the second of
which reports a workflow that the first had already replaced. The library that
draws the canvas is modelled by the calls it makes. `ListsAssumption` says that
the gateway's list never has an id twice: it is the primary key of the table.

**WorkflowSaves** joins the list of workflows in `App` to the table of the
gateway. A call is a message that moves from statement to statement (`sent`,
`read`, `written`, `done`); the page awaits only the list, creations and
deletions. `Write` is an UPDATE that may find its row gone, which the code does
not notice. `Stop` closes the databases while requests are served, because
`ListenAndServe` returns as soon as `Shutdown` is called and `main` then runs
its deferred calls; `Exit` also covers a kill. Name, flag and graph of a
workflow are the number of the save that carries them. `astray` is the history
of what the page need not show as it is saved: every reason for it is an action
of the model, so that `SettledAsSaved` says there is no other.

**Dashboard** mounts one page at a time; the pages are modules of their own.
**PageCalls** has what they share, calls that are answered in any order.
**FleetView** is the list of devices, **MonitorView** the poll that asks for
heartbeats and then for each device (`DeviceAnswer`) and for the configuration of
its group (`ExpectedAnswer`), each of which may fail, **ConfigView** the
deployment and activation of OTEL configurations with the fetches that follow
them (the gateway's tables are part of it, and calls of a page that was left
still take effect; the fields of the form are left out, so that any content may
be deployed), **ReplayView** the timeline of a journey over
**JourneyParser**, and **CollectorView** the form of endpoints and credentials.
The parser reads each of the forms a document may have, sorts its events by
time, enters the traces as it meets them and sorts them by their first events
(`GroupByTrace`). `DocumentsAssumption` says what a document is: lists of records,
or for an envelope lists of lists of them, whose dates are numbers and only whose
lines may be no JSON. That nothing unreadable but lines is left out is not built
into it: `DocumentAccounted` compares the timeline with the records of the
document, not with what the parser made of them, and has a reading of a record
of its own (`Shows`).
`NanosAssumption` says that there are some nanoseconds in a millisecond.

**Acceptance** runs `boot.mjs` and `real-device-android.mjs` on one machine,
also after one another: the processes they spawn, the ports they find taken,
the two files they edit and back up, the line in the device's log that confirms
a publish. `Interrupt` is Ctrl-C, which reaches the spawned processes at once
and the script where it next awaits something; `Kill` runs no handler. Copying
a file is taken for atomic.

## 3. Runs

| Run | Instance | Checks |
|---|---|---|
| `config_store` | 2 handlers, 2 versions | `TypeOK`, `ExactlyOneActive`, `NoLockCycle`, that the store implements `ConfigRegistry`, and under fairness `Answered` |
| `fleet_pipeline` | 3 events, 2 handlers, 2 workers, channel of 1, memory of 2 | `TypeOK` with the two capacities, `NothingUncounted`, `OncePerMemory`, and under fairness `Drained`, `WorkersReturn` |
| `fleet_rules` | 4 events of 3 devices in 2 cohorts, 2 workers, 3 rules | `NothingStranded`, `NoFalseAlarm`, `NoBurstMissed` |
| `cascade_breaker` | 2 callers, 2 chains, a fleet of 4 or of unknown size | `TypeOK`, `GrantsFitFleet`, `NothingGrantedWhenHalted`, `RefusalsAreFree` |
| `rate_limiter` | 2 clients, limit 2 in 2 units of time, 7 units | `LimiterTypeOK`, `NeverOver`, `RefusedWithReason` |
| `device_registry` | 1 device, 2 groups, 2 heartbeats, 2 configurations | `OneActivePerGroup`, `GroupKept`, `HeartbeatRecorded` |
| `device_registry_driver` | the driver of `go.mod` | violation of `RegistrationKept` |
| `policy_graphs` | 6 lists of up to 4 nodes, up to 4 edges in every order | `CycleCheckExact`, `ValidatedCompiles`, `SameMeaning` |
| `workflow_editor` | 2 workflows of up to 3 nodes, 2 edits | `NothingDrawnIsLost`, `DialectsCoverTheSame` |
| `workflow_saves` | 3 workflows, any of them saved before; the list and 3 more calls, one connection lost, one restart | `DeletedStaysDeleted`, `RefusedOnlyGone`, `SettledAsSaved` |
| `dashboard` | one page at a time with up to 3 calls (2 polls) under way; 6 documents | `ControlsFollowCalls`, `SettledOnSelection`, `DocumentAccounted`, `CredentialsReach`, and of every step `PollShowsAll` |
| `acceptance` | two runs of either script, one edit of the developer | `OriginalsRecoverable`, `ConfirmedFetchedNew`, `FilesRestored`, and under fairness `TornDown` |

Why the bounds are enough:

- *ConfigStore.* Locks and flags concern pairs of connections: a rollback that
  is SHARED and a writer that drains its readers are the smallest wait that
  could be cyclic. Two versions let a rollback return to the older one, race
  the publication of its own target or miss it. The theorems need no bound.
- *FleetPipeline.* Both batches hold the event `e1`, one repeats an event, the
  memory has room for two of three ids and the channel for one event, so that
  duplicates within a batch and across concurrent batches, eviction by age and
  by size, a repetition after an eviction, and shedding all happen. The clock
  stops at 2 with a maximum age of 1.
- *FleetRules.* Two workers can miss the same window at once; two devices, an
  event too old for the window and one of another cohort are the least for a
  threshold that may be wrongly reached or missed.
- *CascadeBreaker.* Calls ask for one or two devices; a fleet of four with 50 %
  and an absolute limit of three make either limit the binding one; an unknown
  size (0) makes the percentage void.
- *RateLimiter.* Seven units of time are three windows, so that a sweep, an
  expiry and a full window meet in every order; the proofs need no bound.
- *DeviceRegistry.* One device, as no statement touches two; two heartbeats of
  it at once, two groups and two configurations per run.
- *PolicyGraphs.* The compilers recurse over edges; four edges make nested
  gates, cycles off the entry, diamonds, and two states with a trigger, a
  timeout and an action. An edge that is there is drawn again only as the last
  one: `addEdge` leaves the canvas as it is, but the handler reports it. One list
  of nodes has two states of one name. The two theorems need no bound, nor ids
  that differ.
- *WorkflowEditor.* Two edits are the least in which an addition follows a
  removal; the list changes (`Load`, `Create`, `Delete`, `Select`, tabs) are
  not bounded but by the number of workflows. With three edits TLC did
  not finish; it met no violation in the first nine million states.
- *WorkflowSaves.* Two saves and a deletion of one workflow are the least in
  which a save overtakes another and meets a deletion; the table may hold any
  of the workflows at first, so that none of the three calls is spent on
  creating one. The third workflow is what the selection moves on to.
- *Dashboard.* A call that was overtaken, the one that overtook it and one for
  another group; a deployment with its two fetches next to those of another
  selection; two heartbeats, so that the question about one device or about its
  configuration fails before, between or after the answers about the other;
  documents of each form with records out of order, of equal times, of several
  traces, and such as cannot be read, among lines also before one that can.
- *Acceptance.* Two scripts, the second of which finds what the first left
  behind; a log line may be as late as the script allows for.

Deadlock is checked for ConfigStore, DeviceRegistry, WorkflowEditor and
Dashboard. The other models stop
at their bounds: when every batch is sent, every event counted, the clock has
run out, no edge may be added, no call may be sent or all scripts have ended.

**Fairness.** `FairSpec` of ConfigStore and of FleetPipeline assume weak
fairness for the steps of a goroutine that has work: the Go scheduler is
preemptive and a statement that waits for a lock ends with SQLITE_BUSY at the
latest. Nothing is assumed of clients, of the Collector or of the operator:
requests may stop at any time, and the liveness properties speak of requests
that have arrived, events that are in the channel, a `Stop` that was called.
Acceptance assumes weak fairness of `Obey` only: a process that heeds SIGTERM
ends some time after it. Processes that ignore it are the constant `Deaf`, and
`TornDown` does not speak of them. The scripts themselves may be slow or be
killed, so that nothing is assumed of their steps.

## 4. Where the code does not do what is said

The run `device_registry_driver` finds `RegistrationKept` violated: `GetDevice`
cannot read a row with the driver in use, so every heartbeat takes its device
for unknown and overwrites what the device said of itself at registration. The
handler's comment says "Auto-register device if not already registered".

The models have more such behaviour, which no property denies:

- *Canvas* (`WorkflowBuilder.tsx:677`). After an edge is removed the workflow
  still has it, and so has the policy that is published then, until another
  event on the canvas reports again; the comment says "Sync back to workflow".
  `NothingDrawnIsLost` shows that it only goes wrong in this direction while the
  canvas belongs to the selected workflow. After `Select`, `Load` or `Create`
  the canvas still shows the workflow from before (`:567`: it copies its nodes
  when it is mounted), and the next event on it writes those nodes into the
  newly selected one (`origin = Nothing`).
- *Reachable states* (`graphToDSL.ts:235`). A state whose only incoming edge
  comes from its trigger passes the check "all states are reachable", and no
  transition of the compiled machine leads to it. In a machine of several
  states an action that hangs below another action of a state is not compiled.
- *Names of states* (`graphToDSLv2.ts:134`). The name of a state becomes its id in
  the document, where `docs/DSL_V2_SCHEMA.md:113` asks for a "Unique state ID
  within this workflow", and `validateGraph` does not compare names. If two are
  the same, a transition from one to the other leads a device back to where it
  is. `ValidatedCompiles` excludes only this, and TLC violates it without the
  conjunct `unique`. A state from the palette is always called `idle`
  (`WorkflowBuilder.tsx:251`) and no form edits that, nor `isInitial`.
- *Compliance* (`handlers.go:400`). The gateway computes the expected version
  with `Atoi` from a text like `1700000000.0.0`, which yields 0, the version of
  a new device, so that the rollout status counts devices that never reported.
  The monitor page computes it with `parseInt` from the same text, which yields
  1700000000, and disagrees. The rollout status of a group without an active
  configuration dereferences nil (`rollout.answer = "panic"`).
- *Saves.* The workflow the builder starts with is never created, so that its
  saves are refused with 404, which the page does not tell. A workflow that was
  created before a slow list is answered is in the list twice. The selection
  may stay on a workflow that is deleted while another was selected
  (`App.tsx:122`).
- *Shed events* (`handlers.go:1580`). An event is marked as seen before it is
  queued. If the channel is full it is shed, and when the Collector sends it again
  it is dropped as a duplicate for as long as its id is remembered.
- *Halts* (`gateway/main.go:98`). A restart forgets that the kill switch was
  engaged.
- *Devices* (`DeviceFleet.tsx:32`). Answers are shown as they arrive: after
  another group was selected, a late answer for the one before it replaces the
  devices of the selected group, and the selection still names that group.
- *Configurations* (`ConfigManager.tsx:146`). A deployment or activation goes on
  with the group of the rendering it was started in: after another group was
  selected the page shows the active configuration of the old one.
- *Journeys.* Fetching the same unreadable document once more clears its error
  and computes nothing, so that the page is empty without saying why; one null
  in an array hides every record. In a document of lines a null, or a log record
  one of whose attributes has no value, is JSON, yet it is left out without an
  error like a line that is none (`journeyParser.ts:82`: "skip malformed lines").
- *Credentials.* Headers are made for the saved endpoints only: an export right
  after saving lacks them, and clearing the token keeps those that were loaded.
  Removing the selected endpoint leaves none selected.
- *Scripts.* The SIGKILL that `boot.mjs` schedules two seconds after SIGTERM is
  never sent, as every caller exits at once: a process that ignores SIGTERM
  stays and keeps its port. The gateway of an earlier run that keeps the port
  answers the health check of the next, which then publishes to it and takes its
  answers for those of its own (`real-device-android.mjs:149`;
  `ConfirmedFetchedNew` speaks of runs whose gateway is their own). A
  configuration that was absent at the start has no backup, so that the generated
  one stays.

## 5. Proofs

TLAPS proves, for every value of the constants that satisfies the named
assumptions:

| Module | Theorems | Assumptions |
|---|---|---|
| ConfigStoreProofs | `TypeCorrect`, `AlwaysOneActive`, `NobodyLocksOut`, `WritersExclude`, `VersionsAreKept`, `StoreImplementsRegistry` | `MaxVersionAssumption` |
| FleetPipelineProofs | `SizesKept`, `EventsAccounted`, `ProcessedOnce` | `SizesAssumption`, `BatchesAssumption`, `SetsAssumption`, `NamesAssumption` |
| FleetRulesProofs | `WindowsNotLost`, `AlarmsHaveCause`, `BurstsFire` | `StampAssumption`, `LimitsAssumption` |
| GatewayLimitsProofs | `TypeCorrect`, `HaltsHold`, `RefusalsCostNothing`, `GrantsWithinLimits` | `LimitsAssumption`, `SetsAssumption`, `TimesAssumption` |
| | `LimiterTypeCorrect`, `LimiterNeverOver`, `RefusalsHaveReason` | `LimitAssumption` |
| DeviceRegistryProofs | `OneConfigActive`, `GroupsKept`, `HeartbeatsRecorded` | `GroupsAssumption` |
| WorkflowSavesProofs | `NothingDeletedReturns`, `SavesRefusedForGone`, `PageAgreesWithTable` | `DefaultNotCreated` |
| PagesProofs | `WaitingEnds`, `SelectionShown`, `PollsComplete`, `CredentialsSaved` | `AllAssumption`, `DefaultAssumption` |
| | `DocumentsAccounted` | the two above, `DocumentsAssumption`, `NanosAssumption` |
| | `DrawingsKept`, `DialectsAgree` | `ListsAssumption`, `NewIdsAssumption` |
| | `CyclesFound`, `ValidatedPoliciesCompile` | `PalettesAssumption` |
| AcceptanceProofs | `TextsKept`, `FilesPutBackAtEnd`, `ConfirmationIsNew` | `RunsAssumption`, `DelayAssumption` |

Each of them states a property that a run of section 3 checks on its instance,
except `WritersExclude` and `VersionsAreKept`, of which more below.

*ConfigStore.* `ExactlyOneActive` alone is not inductive: a commit replaces the
table by `dirty[h]`, of which it says nothing. The invariant adds what each
transaction holds at each statement (after the insert, the table as it was with
no flag and one more active row; after the second update, the same rows with
one flag) relative to the table that is committed now. That relation survives
the steps of others because of `OneWriter`: nobody else can commit while a
transaction holds RESERVED. The refinement follows: a commit changes catalogue
and active version as one operation of the registry, every statement before it
changes neither, and an error after it is a `Forget`. `NoLockCycle` follows
from `OneWriter` as well: the one writer either does not wait, or drains its
readers, and the only reader that stays is a rollback about to write, which
SQLite refuses instead of letting it wait.

*FleetPipeline.* The invariant is what the run checks: `TypeOK`,
`NothingUncounted` and `OncePerMemory`. Each step moves one event from one
place to the next (the rest of a batch, the handler, the channel, a worker,
`completed` or the shed ones), so both accounts stay balanced; what has to be
shown is that an id is forgotten only when the event that brought it is not
counted any more, and that a second handler with the same id finds it in the
memory, however the two interleave between `CheckDuplicate` and `Ingest`.

*FleetRules.* Of a window the invariant says that it belongs to one key and
holds exactly the events that were counted for it, so that a worker that missed
the key and one that made the window meanwhile count in the same. Of a burst it
says that among the workers which have counted one of its events, the one that
evaluates last sees all the others (an event that is added but for which the
rules are not yet read was evaluated against none, `Unevaluated`); that needs a window to be longer than the
time the burst takes, which is why the constants relate `Second` to `Duration`.
An alarm has a cause because a rule that fired saw its limit in the window, and
nothing leaves a window of this model.

*CascadeBreaker.* The invariant is `TypeOK` and `StillPasses`: a caller between
its tests and its reservation would pass the tests again. It is kept because
the operations that could change their outcome wait for the read lock, and time
only ends cooldowns. Without it a reservation could be granted after the kill
switch. For the budget it is enough that finitely many devices are reserved: a
reservation adds a set of pairs that is disjoint from the others, so that the
total grows by what was asked for and tested, and no other step adds any.

*RateLimiter.* The invariant says of each client that its slice is the end of
the sequence of all accepted timestamps, that what is missing from it has
expired, that the timestamps are ordered, and that any two of them `Limit`
places apart are more than a window apart. A request is accepted only with
fewer than `Limit` timestamps left, so the one `Limit` places before it is
missing from the slice and has expired, which is the new instance of the last
part.

*DeviceRegistry.* The invariant says what a handler carries from one statement
to the next: a version that its device has reported, and an expected version
that some configuration has, also when the group or the configuration of the
device changes before the status is written. A device that sent a heartbeat is
registered unless a registration failed or one is under way. No more than types
is needed for the group, as a second registration leaves it alone, and for the
active configuration, as both operations that activate one clear the flags of
the others in the same transaction.

*WorkflowSaves.* That nothing deleted is in the table says nothing of a creation
under way, which would bring it back. The invariant calls an id known that the
table has or has had, or that is the default; it says that the page shows, and
asks for, known ids only, except that a creation not yet executed has an id
that is not known, and is the only one with that id. A save inserts nothing, so
only such a creation extends the table; a deletion makes no id unknown. For the
same reason a save that finds no row is for an id that was deleted, or for the
default. `SettledAsSaved` speaks of workflows for which nothing is under way, so
the second invariant says what is to come for the others: what is shown is
saved, or a save that carries it will still find its row, or the answer to a
deletion is on its way; no save under way has a later number than what is
shown; and a creation whose answer is yet to be shown has a row nobody saved to.
The last part rests on the list being asked for once: were it asked for again,
it could take from the page a workflow that was changed already.

*Dashboard.* The invariant has a part for each page, of the page while it is
mounted: leaving a page discards its state but not its calls to the gateway,
whose effect on the tables is a part of its own (`ServerInv`).
A list of devices says nothing while calls are under way, so its part is about
the last of them: it is for the selected group, or a later one was answered
already, and the page loads only while some call is under way. When the last is
answered, what it shows is therefore the selection. For configurations that is
not enough, since the gateway may change between a read and its answer: an
answer that was not overtaken by a write or by a later answer is still what the
tables hold (`AnswersCurrent`), and exactly one call under way continues a
deployment while the page waits for it, none otherwise (`DeploymentFollowed`).
That every call is answered once makes `ControlsFollowCalls` follow.
`PollShowsAll` says of each step of the monitor that it leaves the rows alone,
clears them when a poll found no heartbeats, or puts on the page a row for each
heartbeat of the poll it ends, with what that poll had found out before; a poll
that has its heartbeats cannot end in any other way. That follows from the step
alone (`MonitorStep`): the questions are about heartbeats of their own poll
(`MonitorInv`), and a question that fails is an answer too. For the credentials the storage satisfies the property itself, and
the form is such that one save makes it true whatever was typed.

*Journey.* Of the page the invariant says only that its document is one of
`Documents`, and that what makes the parser throw is reported, unless a fetch is
under way or has brought the same document again; the rest is about the
operators. What makes it throw is an unreadable record of a document that is not
one of lines (`ThrowsExactly`), and otherwise its events are those that show the
readable records of the document, each as often as it is there
(`EventsAccount`). Sorting
puts each element in a place of its own, in the order of the keys
(`SortStableFacts`: the place of an element is the number of those that are not
after it). Filtering keeps the order (`FilterPlaces`), and how often an element
occurs (`NumFilter`). The groups are the parts of the sorted list that belong to
one trace each; they have no event in common and leave none out, so that joined
(`FlattenFacts`, `JoinParts`) they hold each event as often as the document
does. The rows are the same lists, mapped (`AppliedFlatten`).

*WorkflowEditor.* `NothingDrawnIsLost` is kept only because the canvas either
belongs to the selected workflow, which is then in the list, or to none
(`origin`), and because no two workflows of the list have the same id, so that
writing one back by its id changes nothing else. The second needs the ids that
`Create` takes to be new, and the gateway's answer to be a list without
repetitions. `DialectsCoverTheSame` needs no invariant of the canvas: the first
compiler fails if any workflow is empty, and otherwise the second, which leaves
the empty ones out, leaves none out; and a compiled workflow keeps its id.

*Cycles.* `After` goes a bounded number of steps, so it is shown first that it is
the least set that has the targets of a node and is closed under edges: each
step that adds nothing ends it, and no more steps can add something than there
are edges. `Dfs` and `nodeToMatcher` are recursions, and that a function obeys
their equation has to be proved before anything can be said of it: a call
depends only on calls that have one id more marked as visited (or above the
gate), so that as many levels as there are ids determine it. The invariant of
the search (`Sound`, `Called`) says that an id it is done with (visited and not
on the stack) lies on no cycle and has only edges to such ids, and that every id
on the stack leads to the one that is searched from. So an edge to the stack
closes a cycle, and when the loop over the nodes has ended, every node is done
with. Whether ids of nodes differ, and whether edges lead to nodes, does not
matter. For `ValidatedCompiles`, a gate met again below itself would be on a
cycle, so every node of an accepted graph has a matcher; and with names that
differ a transition follows an edge between two states, so that the states
behind one are closed under transitions and, there being no cycle, do not
contain it.

*Induction over lists.* What `Filter` returns is proved for lists of every
length (`FilterFacts`): its elements are those of the list that are in the set,
in `Seq` of them, and a list that lies in the set is returned as it is. So is how
often an element occurs in a list that is filtered, sorted, or joined from
others, for which it has to be shown first that the equation of the library's
`FlattenSeq` defines a function (`JoinDefined`). The library's induction theorems take an operator as a parameter, for which the
provers have no instance; the proofs take the least index at which a claim
fails instead, which exists because `<` is well founded on the naturals
(`LeastElement`).

*Acceptance.* A run starts when the earlier ones are over, so one is active at a
time. The invariant says of its list of steps still to be done which of the
possible rests of setting up and putting back it is, and relates it to the
files: a file is overwritten only after it was saved, a backup removed only
after it was restored, and what the run found is in the backup until then and
in the file afterwards. A run that is killed leaves the part of this that
`OriginalsRecoverable` needs to the next. For the confirmation: while a run
listens, the gateway it published to is the one that serves the port, and a log
line from before the publish is at least as old as the time waited since, so
that none is left to be taken after the grace period.

`WritersExclude` (one transaction holds the write lock) and `VersionsAreKept` (a
published version is never lost or changed) are proved and not checked by a run
of their own: the first is a part of the invariant of the proof, the second
follows from the refinement, which `config_store` checks.

Only model-checked:

- liveness under fairness (`Answered`, `Drained`, `WorkersReturn`, `TornDown`),
  which the prover does not reach;
- `SameMeaning`: it evaluates trees of matchers of any depth, which takes a
  RECURSIVE operator, and compares them with the list that v1 flattens such a
  tree into. `policy_graphs` takes every graph of its six lists of nodes;
- `RegistrationKept`, which does not hold with the driver of `go.mod`.

## 6. Not modelled, and plan

Left out for good:

- *Cohorts.* Nothing in the gateway calls `RefreshMembership`, so the table of
  memberships stays empty, and no part that is modelled reads it. Deletion of a
  cohort deletes its row only; the comment that it also deletes "its
  memberships" is vacuous for the same reason.
- *Cascade audit, fleet event database.* Rows are appended and expire, one
  statement each, and are read for display only.
- *Push channel.* Nothing registers a connection or delivers through one.
- *Targeting rules, buffer configurations, metrics and funnels.* One statement
  per request, on a table of its own that nothing else reads.
- *Authentication, signatures, telemetry export, replay proxy, device
  simulator.* Functions of one request, or equipment without state.
- *Node forms, presentation, deployment scripts.*
- Wording, JSON layout and logging, everywhere. Times that are text, which the
  journey parser turns into dates that compare as neither less nor greater, are
  left out of the documents.

Of the parts that are modelled, `ListVersions`, the listings of devices, the
version list of the editor and `Trim` of the sliding windows (which has no
caller) are left out: they only read, or do not happen. The windows therefore
grow for the life of the process, which a model of finitely many events cannot
show.

Of the safety properties that the runs check, those of section 5's last list are
the ones no theorem states.
