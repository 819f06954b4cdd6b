# hmi-editor: verification project

TLA+ models of the parts of hmi-editor whose correctness depends on order,
failure and concurrency, the TLC runs that check them, and proofs that hold for
every value of the constants. Paths below are relative to the repository's root;
`crates/` stands for `io-backend/crates/`, `core/`, `store/` and `editor/` for the
directories of `src/`.

`tlc -config X.cfg M` checks a run, `tlapm M.tla` a proof module. `PROJECT.json`
lists runs, mutants (one plausible bug of the code for each property, which its
run must notice), the map from definitions to source lines, findings, hazards
and theorems.

## 1. The system

An editor in the browser (TypeScript) draws process pictures and runs them; an IO
backend (Rust, tokio) collects points from devices through WASM plugins, serves
them over WebSocket and HTTP, raises alarms, stores projects, and runs as one
node or as a pair of redundant nodes. A management UI (React) configures it.

### Components

| Component | State | Operations | Talks to |
|---|---|---|---|
| Redundancy engine `crates/point/src/redundancy` | role, heartbeat, unhealthy and stable counters, last promotion, split-brain flag, config version | `on_tick`, `handle_claim`, `handle_sync`, `promote`, `demote`, snapshot push | peer over HTTP; PointManager's active flag; role channel to `main` |
| Redundancy handlers `crates/web/src/api/{redundancy,mod}.rs` | config version in the database | heartbeat, claim, sync, config push, version bump | engine, database, alarm engine |
| Role runtime `crates/bin/src/main.rs` | role task, health provider | start-up decision, promote/demote commands, probing of local data | engine, registry, alarm engine |
| Point cache `crates/point/src/manager.rs` | last value of each point, active flag, active instance of each group | `update`, `apply_sync`, gating | bridge, engine |
| Bridge `crates/bridge` | none | forwards updates | alarm engine, WebSocket broadcast |
| Alarm engine `crates/alarm/src/engine.rs` | rules, candidates, active and recovered alarms, last values, one lock each | `on_point`, `tick`, `ack`, rule edits, `rebuild` | persister, broadcast |
| Alarm persistence `crates/alarm/src/persist.rs`, `crates/db` | queue, tables | persister task, reload | database |
| Project store `crates/project/src/store.rs` | packages on disk, rows | `list`, `get`, `put`, `delete` | database, HTTP handlers |
| Plugin registry `crates/plugin` | running instances, redundancy groups | start, stop, supervise, switch group, probe primary | WASM host, monitor, PointManager |
| WebSocket server `crates/server/src/ws.rs` | connections, subscriptions | snapshot, updates, controls, role messages | broadcast, registry |
| Authentication `crates/auth`, `crates/web/src/auth.rs` | users, token version | login, refresh, change password, administration | database |
| Configuration and database `crates/config`, `crates/db` | configuration tables | edits, snapshots, import/export | handlers, peer |
| Protocol plugins `crates/plugins`, `crates/shared` | link state, sequence numbers, pending commands | scan, write, connect | devices |
| Realtime client `core/io` | socket, reconnect timers, mapping, last values | connect, disconnect, messages, controls | WebSocket server, variables |
| Alarm clients `core/alarm` | active alarms, rules, history | REST refresh, WebSocket updates, local engine | backend |
| Remote session `core/auth/remote.ts` | tokens, refresh timer | login, refresh, logout, authorized requests | auth service |
| Remote projects `src/store/slices/remoteSlice.ts` | link (id, version), cached list, conflict | open, push, overwrite | project store |
| Project manager, history, scene, autosave `core/project`, `core/history`, `core/scene`, `core/autosave` | pages, undo stacks, selection, drafts | edits, undo/redo, save, recovery | browser storage |
| Shape library `core/project/LibraryController.ts`, `core/shapes/libraryGroups.ts`, `editor/panels/ShapeLibrary.tsx` | items, groups, folded sections | save, import, move, fold, open a project | project file, localStorage |
| Bindings and scripts `core/bindings`, `core/script` | subscriptions, animations | evaluate, dispose | variables, scene |
| Message contracts `src/packages/contracts` | none | guards and JSON schemas of every message | both ends of the socket |
| Management console `io-backend/web-ui` | page, rows shown, form, requests | polling, forms, switches, removals | backend over HTTP |
| Shapes, SVG, rendering, other user interfaces | geometry, views | drawing | - |

### Which behaviour is hard, and what correct means

* **Redundancy.** Two processes decide by messages that may be lost or late, timers
  and a peer that may be down. Correct: while nothing but devices fails, never two
  Active nodes, and the duty moves by one node stepping down first; whatever
  happens, a healthy primary is not demoted, the pair does not stay without an
  Active node, the primary gets the duty back, and two Active nodes find each other.
* **Alarms.** Bridge, timer, web and role threads meet in five maps with a lock each.
  Correct: no unacknowledged alarm is lost or kept twice, one alarm per excursion,
  alarms follow the point, candidates come to an end, and threads do not block
  each other.
* **Projects.** A file swap and a database transaction with awaits in between.
  Correct: a request takes effect in both or in neither, failures leave nothing
  behind, and a rejected push changes nothing.
* **Instance groups.** Supervision, switch-over, probing and role changes on shared
  maps across awaits. Correct: at most one running instance per group, points accepted
  from the one that runs, and one whose device answers if there is one.
* **Configuration.** Read-modify-write of the version, pushes that are not repeated.
  Correct: nodes with equal versions hold equal configurations.
* **Realtime.** Sockets whose events arrive late, REST answers racing updates.
  Correct: at most one live socket, the last value of the server wins, controls go
  to the Active node only.
* **Sessions.** Refresh racing logout and login. Correct: the session is of who logged
  in last, it does not expire unattended, its tokens are those the backend accepts.
* **Remote projects.** A link, a snapshot and draft backups written at different
  times, pushes answered after another project was opened. Correct: no edit is
  lost and no version overwritten that nobody has seen.
* **Editor.** A history per page over scenes that are swapped, saved and edited by
  drags. Correct: undo and redo lead to the scenes their commands were made in; bound
  shapes show their variable; the library reopens as it was shown.
* **Console.** Answers of one page applied while another selection is shown. Correct:
  the rows shown are of what is selected, and nothing is written over rows that
  have changed since they were shown.
* **Field link.** Frames in any division, numbers of two widths, a link that goes silent.
  Correct: the host has the station's last value, and what was read is acknowledged.
* **Server.** Broadcast, snapshot and role changes beside the two tasks of a client.
  Correct: a client that is served has the last value.

All hazards with their lines are in `PROJECT.json`.

## 2. Modules

| Module | Models | Runs |
|---|---|---|
| `SingleActive` | what the pair promises: at most one Active node, handed over in two steps | through `calm` |
| `NodeRedundancy` | both nodes' redundancy engines, handlers, start-up and the network | `calm`, `faults`, `liveness`, `splitbrain` |
| `NodeRedundancyProofs` | proofs about it, and that it implements `SingleActive` | |
| `AlarmEngine`, `MCAlarmEngine` | the alarm engine with its callers and the persister | `alarms`, `following`, `promotion`, `locks` |
| `AlarmEngineProofs` | proofs about it | |
| `ProjectStore` | put and delete on database and disk | `store`, `race` |
| `ProjectStoreProofs` | proofs about it | |
| `Realtime` | the editor's sockets, reconnection, simulation and preview | `connections` |
| `InstanceGroups` | a node's plugin registry with a redundancy group, supervisor, role task | `connections` |
| `Connections` | the two before as one specification, a behaviour being one of one part | `connections` |
| `ConnectionsProofs` | proofs about it | |
| `LocalAlarms` | the alarm engine inside the editor | `parts` |
| `Contracts` | guards and schemas of the messages | `parts` |
| `PointTable` | import of the backend's points, their values, controls | `parts` |
| `RemoteAlarms` | the editor's view of the backend's alarms | `parts` |
| `AuthSession` | the editor's session with the backend | `parts` |
| `ProjectSync` | project, link, snapshot, draft backups and the backend's rows | `parts` |
| `Document` | pages, scene, undo histories, selection | `parts` |
| `Library` | the custom shape library | `parts` |
| `Bindings` | bound shapes and their index | `parts` |
| `Console` | the pages of the management console | `parts` |
| `Iec104Link` | the IEC 104 plugin and a station | `parts` |
| `ConfigSync` | the configurations of two nodes, edits and pushes | `parts` |
| `WsServer` | the WebSocket server with the bridge and one client | `parts` |
| `Editor` | the parts of the editor and the console as one specification, a behaviour being one of one part | `parts` |
| `AuthSessionProofs`, `ProjectSyncProofs`, `ConsoleProofs` | inductive invariants of three of the parts | |
| `EditorProofs` | the theorems about `Editor` that follow from them, and proofs about `PointTable`, `Bindings`, `LocalAlarms`, `RemoteAlarms`, `Library` and the types of `Document` | |
| `MCConnections`, `MCParts` | values of the constants for TLC; `MCParts` adds the three modules of the backend to the parts of `Editor` | `connections`, `parts` |

### NodeRedundancy

`pc` is the point where a node's start-up or heartbeat task waits: `down`, `boot`
(asking the peer at start-up), `idle`, `heartbeat`, `tcp` (port probe), `local`
(probe of the own plugins), `claim`. Each await of `on_tick` ends a step; what the
task does between two awaits is one action (`HeartbeatOk`, `HeartbeatLost`,
`PeerListens`, `PromoteOnLoss`, `LocalDataReady`, `ClaimAccepted`, ...). Requests
on their way are the sets `claims`, `syncs`, `pushes`; answers on their way are
`beat` and `answer`, read when the handler ran and used later. The handlers
(`HandleClaim`, `HandleSync`, `HandlePush`, `ServeHeartbeat`) run at any moment. A
claim whose sender gave up stays as `stale` and may still demote the peer.

`stable` counts answered heartbeats as the code does, without a cap; the model stops at
`MaxStable`, which is above every number the comparisons tell apart. `steady` is a history
variable counting the same from outside. `RequiredStableBeats` computes the failback delay
in heartbeats.

The environment crashes and restarts processes, cuts the network, takes away
devices, loses, delays and reorders requests; `Faults` says which of these may
happen in a run. `MaxLag` bounds how many rounds a node may begin while the answer
to its peer's claim is under way: the claim's timeout is one heartbeat interval.

Left out: `promote` and `demote` are one step each; display fields (`peer.*`,
round-trip times, events) decide nothing; stale claims of one node are alike;
`EditConfig` reads and writes the version in one step; `probe_local_data` fails only
without field devices; the snapshot of a sync is only its version.

### AlarmEngine

A step is one access under one lock. `frame[t]` holds where thread `t` is and its
local variables. Two guards last over several steps and are modelled: `readers` and
`writers` of `rules` (a waiting writer keeps new readers out, as std's RwLock may),
and `confirm` while `tick` scans it. The guard of the PointManager lasts over
`on_point`, because the bridge holds it, and over the reading of values in
`rebuild`. `occ` are the occurrences, `active` and `unacked` the keys of the two
maps. Events go into `queue`; `Persist` writes them to `db`; `Restart` reads back
what `db` holds then.

Left out: more than one point, SOE records, severities, texts, pruning. `OnPoint`
happens only while the node serves. Ids are used once (`MaxOccurrences`); a full
queue (`MaxQueue`) delays `Send`, the real channel is unbounded. A promotion whose
plugins fail to start is not modelled. An operator may change a rule to trigger at once
(`now`), after a delay (`later`) or not at all (`off`). A candidate that waits when its rule
becomes immediate is judged by the timer while the bridge triggers by value, and each may
raise an alarm for the same excursion (`engine.rs:202` and `240`): `hasty` are the alarms
the timer raised so. `OneAlarm` excepts them; `OneAlarmWhoeverTriggers`, which does not, is
violated (section 5).

### ProjectStore

A step is one awaited file operation or one transaction. `row` and `disk` are the
two halves of a project, `tmp` and `backup` the temporary files of each request,
`frame` its place and locals. Failures: a transaction fails, a rename fails, a
request is dropped (`Abandon`: the client hangs up and axum drops the handler, or
the process ends). `alone` and `before` are history variables: no other request was
in progress since this one began, and what it found.

Where a rename fails the old package is moved back by another, which may fail too
(`PlaceFails`, `RestoreFails`): the code logs that and gives up, and the request is `stuck`.

Left out: requests that fail validation, `list` and `get`, which change nothing; two
temporary names in the same nanosecond. `None` and 0 are the same expected version
for a project that does not exist, and neither matches one that does. A call under
way when its handler is dropped counts as done or not done.

### InstanceGroups

Two tasks start and stop the members of a group: the supervisor, which runs on every
node from the start of the process, and the role task, which obeys the redundancy
engine. `load_and_start` is awaited (it connects to the device), so each is two
steps on either side: `Switch` and `Switched`, `Tick` and `Probed` with `Judge`, `Start`
and `Started`; anything may happen in between. `plugins` is the registry's map. An
instance that was told to stop is in `stopping` until its actor finds the
message; until then it scans, and its end writes the status a successor shares
(`Stop`). `status` is what the monitor holds, written by whoever comes first. `group` is
`GroupStateInner`, `routing` the PointManager's copy of the active member, which
`rebuild_groups` does not set. `Scan` is an actor's scan with its reconnect; `Expire`
the lapse of three scan intervals; `Cool` the end of the cooldown.

The environment turns devices up, mute (connections accepted, nothing answered) or down,
and promotes, demotes and probes the node at any moment (`Command`). `broken` members
cannot be started. `raced` and `reset` are history variables: both tasks were starting
members at once and the result still runs; a promotion has rebuilt the group while the
PointManager kept the backup. `OneSpeaks` excepts both, and section 5 says why.

Left out: several groups and instances outside groups (one supervisor visits them in
turn; that a running member keeps `start_instances` from starting them is a finding),
the routing of writes, status queries, failback switched off, changed configurations.

### Realtime

`client` are the fields of `WebSocketClient`, `sock` the browser's sockets, which
outlive the client's reference to them: `connect` makes a new one whenever the one in
`ws` is not open, and each runs its own `onopen`, `onclose` and `onerror`. A step is
one task of the event loop: a handler, a timer, a click. `Closed` is the whole of
`onclose` with the choice of the next address and the reconnect timer. `simulator`,
`active`, `chosen` and `editor` are `IEC104Simulator`, `DataBridge.activeSource`, the
panel's choice and the running flags of `connectionSlice`. Nodes go up and down
(`Turn`). Left out: data on the sockets (`PointTable`), the heartbeat's content.

### PointTable

`defs`, `mapping`, `values` and `lastValues` are the four maps of `VariableManager`
and `DataBridge`; `Fetch`, `Answer` and `Import` are the steps of
`fetchVariablesFromBackend`, of which several may be under way; `OnMessage` takes what
the socket delivers, `Lost` is the end of a connection. `RefreshTimer` is the debounced
import after a `config_change`. The operator defines, removes and sets variables. History
variables: `control`, the last value set by hand, and `excused`, why the table may be
old. Left out: scaling and texts of points, the fallback address, the subscription
filter.

### RemoteAlarms and LocalAlarms

`RemoteAlarms` keeps the status of each occurrence in `active` and of each of its
copies in `history`. `asked` and `answers` are REST requests before and after the
backend handled them, `stream` the messages of the socket, cleared when it closes. An
answer is `late` when the stream has told more since it was computed; `stale` records that
such an answer was applied. `LocalAlarms` is `LocalAlarmEngine`: a step is one call
(`Point`, `TickConfirm`, `SaveRule`, ...), as nothing in it awaits. Candidates hold a copy
of their rule. `edited` and `narrowed` record what parts it from its promises
(section 5). Left out in both: SOE records, filters by time, group and severity, texts. In `RemoteAlarms`
the backend's engine persists and tells in one step; the persister's delay and the lag of
the broadcast are not in it.

### Contracts

A JSON value is a record with a kind. `Errors` and `Valid` are `validateJson`, the schemas
those of `schemas/`, the guards those of `ws.ts`; `frame` is a message of the protocol
or one that differs from such a message in one place at any depth. Infinity is a kind of
its own: `JSON.parse` reads `1e999` so, the guards' `typeof` accepts it and `Number.isFinite` of the
schemas refuses it, so `GuardsMatchSchemas` excepts the guards on frames that hold one. Other
values inside a kind are left out.

### AuthSession

`session`, `stored` and `timer` are the fields of `RemoteAuthClient` and the copy in
localStorage. A call in `calls` keeps the session it was asked for; the backend answers
(`account`: token version and forced password change; `epoch`: which access tokens have
expired) and the answer is applied later, whatever the session is by then. A page may be
reloaded at any time. Left out: several addresses and tabs.

### ProjectSync

A document is what it was opened from or pushed as, and the number of its last edit. The
link is in localStorage, the snapshot in IndexedDB, so `Reload` may find one without the
other. `tasks` are the dialog's handlers under way, a step being what lies between two
awaits: opening backs up (`OpenStarts`, `BackupSaved`), asks (`OpenAnswered`) and loads
(`Load`); restoring reads the backup first (`RestoreStarts`, `BackupRead`); deleting asks for
the list next (`DeleteRemote`, `DeleteListed`). They overlap, since what keeps a second one
from starting (`busyId`) belongs to a dialog that can be closed; the user edits, removes
backups and reloads meanwhile. `pushing` is the one push, `remoteBusy` keeping others away.
`rows` is the backend's store as `ProjectStore` answers it, with other engineers pushing
and deleting; versions begin at 1 again after a deletion (`deleted`, `reborn`). `lost` records
that a document was replaced whose backup should stand, `blind` the projects of which a sync
replaced a version nobody saw, `mixed` that link and document were parted.

`NothingLost` speaks of the document a handler has backed up; what is edited while it
waits for the backend is in no backup (`EditsNeverLost` is violated). `SyncSafe` excepts `mixed`
and projects created again after a deletion (`SyncAlwaysSafe` is violated). Left out: failing
writes of the snapshot other than being lost, several tabs, the package's content; an overwrite
without a list fetches it in the step that begins the push.

### Document

A scene is the sequence of its Map, `GetAll` its stable sort by zIndex. `EditThat`
pushes a command; `Apply` is `applyUndo` and `applyRedo` with their batches,
reorders and snapshots. `stored` are the pages' scenes, of which the active one's is
synchronised by autosave, save and switch. A command carries the scenes before and
after it (`was`, `is`), which only the property reads. `selected` is in the order of
selection (a marquee takes the topmost first), and grouping puts the children in that order,
as `multiIds` does; undo puts the shapes back one by one, so that only two shapes selected
upper first come back as they were. `lapses` names why a scene may differ from its history. Left out: geometry, resizing, locked shapes, edits inside
groups except the look of a child, groups in groups.

### Library, Bindings

`Library`: `pm` is the project's library, `mirror` the store's, `storage` what localStorage
keeps; `reading` an SVG whose FileReader has not ended. `normalizeGrouping` and
`mergeCollapsed` are operators. `file` are projects with groups that repeat or are
missing, as upgrades meet them. `Bindings`: `index` are the paths the engine finds shapes
at, `moving` the transitions; `Tick` is an animation frame. Edits, grouping, undo, copies and page
switches change shapes and index as their code does; undo reaches one command back (`last`). `excused` names shapes that need
not show the variable, each for a cause in the code. Left out: searching and thumbnails;
mappings other than a range, several bindings of one shape.

### Console

A page is how it loads its rows (polling, on request, at an interval), whether it is
narrowed to a plugin or filter, and what its rows' buttons do; `Dashboard` to `AlarmMonitor`
are the eight pages. `shown` is of which view and version the rendered rows are. Answers
are applied by `Rendered` or `Loaded` as the page's hook does it. `doubt` records why rows may
be old (requests overlapped, a reported failure, somebody else's change). The form of
`RedundancyConfig` is there from the start (`Blank`) and can be saved before its load is answered
or after it failed, which that page reports to nobody. `overwritten` tells how rows were
written that were not shown as they were: `"stale"`, shown in an older version, or `"blank"`,
not shown at all. `NoBlindWrite` is about the first; `NeverBlind`, about both, is violated. Left out:
creation, import and export, charts, permissions.

### Iec104Link

The plugin's actor makes its calls one after the other, so a call is a step; only `connect`
is two (`Dial`, `Connect`), as it waits for STARTDT_CON. `plugin` is `PluginState`, `socket` what the
station has sent and no call has read, of which a call may find any part (`Arrived`). The
station answers at once, as `test-servers/iec104-slave` does, and keeps to a window. Sequence
numbers have one bit more in the plugin (`u16`) than on the wire (`Wire`, 2^15 in the code).
`Current`: on an open link with nothing unread the host has the value the station sent
last. `Acknowledges`: what was read is acknowledged and the next number is the expected one, as
long as fewer than `Wire` frames were received; `AlwaysAcknowledges` is violated. A frame that comes in
two parts panics (`Trap`), and the instance is of no use until it is made anew. Left out: pending
commands (only logged), scaling, quality and time tags.

### ConfigSync

Each call of the database is a step, since requests interleave between two. An edit is
written (`Edit`, `Remove`), set in the engine (`Stored`), the version is read and raised (`Bump`), the
snapshot read part by part (`ReadPart`) and sent; the peer compares the version (`Receive`),
replaces everything (`Apply`), and replaces the engine's rules (`List`, `ReplaceRules`). Pushes are
lost and not repeated, requests abandoned, roles change. `marks` records what parts the two nodes:
`clash` (two requests took one version), `overlap` (handlers crossed), `cut` (a request was
abandoned), `forked` (a node was edited that is not Active, or took over without the other's
configuration). Without them both nodes have one configuration and each engine the stored
rules (`InStep`); `AlwaysInStep`, `AlwaysAsStored` and `OwnConfig` are violated. Left out: the
election, failing database calls, and the settings no request edits.

### WsServer

The bridge, the broadcast channel and one connection. `at` follows the connection from the
role test over the subscription and the snapshot to its two tasks; `queue` is its receiver,
which drops the oldest message for a newer one. Batches, filters, demotions and values of the
peer come at any point. `behind` records why the client may have missed the latest value
(`dropped`, `filtered`, `synced`); without it a client that is served has the value the
PointManager keeps (`Fed`). `AlwaysFed` and `NoClients` are violated. Left out: the alarms'
snapshots, commands of the client.

## 3. Runs

Nothing bounds time; all bounds are counters in guards.

| Run | Checks | Bounds | Shows |
|---|---|---|---|
| `calm` | `OneActive`, `HandoverSpec` | 3 device failures/returns, threshold 3, lag 2, both nodes may collect on Standby | handovers are exclusive and complete |
| `faults` | `ActiveAtRest`, `HealthyPrimaryStays`, `FailbackWaits` | all faults, 1 crash/cut/field change, cold start, a delay of one and a half heartbeats | structure of an Active node; nobody demotes a healthy primary; the duty returns after the whole delay |
| `liveness` | `SomebodyServes`, `PrimaryReturns` | 1 fault, late syncs, fairness | duty is taken over and handed back |
| `splitbrain` | `SplitBrainNoticed`, `SplitBrainHeals` | 1 crash or cut, 1 configuration edit | two Active nodes find each other |
| `alarms` | `Accounted`, `OneAlarm` | 1 rule that is off, immediate or delayed, 1 web thread, 2 alarms, 1 edit, promotion or restart | alarms are neither lost nor doubled |
| `following` | `Follows`, `Finalized` | all four kinds of values, 2 alarms, no edits | alarms follow the point |
| `promotion` | `Follows` (violated) | as above with a role change | alarm missing after a promotion |
| `locks` | `Finalized` (violated) | one edit of a rule | deadlock of three threads |
| `store` | `AloneIsAtomic`, `NoLeftovers` | 2 requests, 2 packages, 2 versions, 2 failures | atomicity of put and delete |
| `race` | `FailedPushInSync` (violated) | 2 requests, no failure | a rejected push leaves its package |
| `connections` | `ConnectsAsAsked`, `AnimationsRun`, `Reconnects` (Realtime); `OneSpeaks`, `GroupServes` (InstanceGroups) | 2 sockets at a time, 2 nodes and a malformed address; a primary and a backup, threshold 2, a probe at every tick, 1 role command waiting, a primary that may be mute or impossible to start | the client comes back and stays away as asked; a group has one speaker and serves |
| `parts` | `ShowsReceived`, `OldForAReason`; `WhoLoggedIn`, `KeptAlive`, `TokensValid`; `NothingLost`, `SyncSafe`; `HistoryFits`; `Mirrors`; `AlarmStands`, `EventsTell`; `ShowsSelected`, `NoBlindWrite`; `ReopensTheSame`; `ShowsVariable`; `GuardsMatchSchemas`; `LinkInStep`; `ConfigInStep`; `Fed`; `TypesOK` | below | what is shown and kept agrees with the backend, the history, the session and the project; values, configurations and frames arrive |

Several modules share a run, not a behaviour: `part` says which of them runs, and it
never changes. `Editor` packs the variables of all of them into `v1` to `v16`, as
only those of one part have values. Bounds of `parts`:

| Part | Bounds |
|---|---|
| points | 1 digital point, values 0 and 2, 2 requests, 2 messages on their way |
| session | 2 users, 2 calls, 1 password change each, tokens expire once |
| sync | 1 project, 3 versions, 1 edit, 1 draft backup, 2 handlers |
| document | 2 pages, 2 shapes at the start, 3 more, 2 commands |
| alarms | 1 alarm on a threshold and 1 on change, 2 versions of the rules, 2 messages, 1 request of each kind |
| console | 2 views with 2 changes each, 2 requests |
| library | 1 item, 2 groups, 2 names, 1 change |
| bindings | 2 shapes, 2 values, 2 commands |
| local alarms | 1 rule, conditions high and change, 2 alarms |
| contracts | one corrupted place per frame |
| link | 2 values, 3 sequence numbers on the wire, a clock sync at every second scan, 1 frame without information beside others |
| config | 2 nodes, 2 requests, 2 edits |
| server | 2 values, a channel of 2 messages, 2 values in a batch |

`Pair` stands for the two requests, calls, pages, groups or shapes, which differ only in
their names (symmetry). `Followed` of `ProjectSync` and `Document` ends behaviours in
which the case has happened that the property excepts for good (`mixed`, a version already
replaced unseen, a lapse of the history): what comes after it is not explored. That of
`ProjectSync` also keeps apart what would multiply: pushes, conflicts and deletions are
followed where no snapshot and no backup is kept, what comes after a deletion without edits
and one call at a time, and overlapping handlers while nobody pushes. The proofs have no such
bound.

Why the bounds suffice. Races in the editor are between two answers, or an answer and
an event; a third request repeats one of them. A value other than 0 and 1 shows the
normalisation of digital points. Three sequence numbers wrap and reach the number past the
wire's; two edits are two requests that cross, or one that follows another's push; a channel of
two messages drops a value for a newer one and for a message that is none. Two commands give undo after undo, redo after redo and
a redo lost to a new command, on one page or on two; grouping needs two shapes, and
its wrong order a third. One edit of a project is there or is not; three versions are a
push, another engineer's and an overwrite. Two nodes are all there are in the backend. A
primary and a backup make the whole ring of a group; a third member would only
lengthen it, threshold 2 tells counting from switching, and one waiting role command
beside the one being obeyed puts promotion, demotion and probe in every order. In `calm` the smallest
threshold for which the handover is safe is used (`MaxLag < UnhealthyThreshold`,
the assumption of the proof; with `UnhealthyThreshold = 2` and `MaxLag = 2` TLC finds two
Active nodes, so the assumption is needed), and three device changes give
a takeover, a failback and another takeover. In `faults` and `liveness` one fault
acts on a system that goes on for ever. Every thread of the alarm
engine works at most with one other on one alarm, and two alarms show one that
overlaps its successor. Two requests are enough for each race on a project, and the
proofs show that a third adds nothing to the two properties of `store`.

`OneActive` fails, as it must, when the run `calm` is given "crash" (a primary that
starts while its peer's promotion is under way), "reorder" or a threshold below the
lag; these behaviours are what `splitbrain` and `liveness` are about.

Deadlock is checked in `calm`, `store` and `race`. It is not checked where a run may stop
by its bounds: without crashes left a process may stay down, without alarm ids left
a thread cannot trigger, a frame of `Contracts` is corrupted once, and `Followed` ends
behaviours.

### Fairness

`NodeRedundancy`: weak fairness for the heartbeat task, for each handler, for the
snapshot timer (it runs every few seconds), for plugins, the cooldown and the healing
of a cut. A process need not be restarted and nobody has to edit a configuration.
`SyncSpec` assumes only that syncs are sent and handled and cuts heal.
`AlarmEngine`: weak fairness for each thread once called, for the persister and for
time; strong fairness for steps that wait for the `confirm` lock, which the timer
takes and drops every 100 ms: a futex-based mutex does not let the timer win for
ever. Values, operators and role changes are not fair.
`InstanceGroups`: weak fairness for the supervisor, the role task, each actor's scans and
end, and for the lapse of a scan's freshness, as tokio runs every task that is ready
and time passes. Strong fairness for the end of the cooldown, and for a probe
that is judged while its connection is still there: the last write of an actor that ends
does not come between the two for ever. `Cool` waits for the scan of a device that
answers and for actors that end: `instance_switch_cooldown_ms` is a minute by default,
far more than these take; a shorter one is not modelled. The redundancy engine and the
devices owe nothing; `GroupServes` is about a node that stays Active and devices that
stay as they are.
`Realtime`: weak fairness for each socket's next event (the browser ends every handshake
and delivers every close) and for the reconnect timer. Users and nodes are not fair:
`Reconnects` is about a client that is left alone while a node it knows stays up.

## 4. Proofs

Every theorem holds for all constants that satisfy the named assumptions (thresholds
positive, roles distinct, bounds natural numbers, failure kinds known).

* `NodeRedundancyProofs`: `TypeCorrect`; `ActiveRests` (`ActiveAtRest` under every
  fault); `HealthyPrimaryIsKept`; `FailbackIsPatient` (`FailbackWaits`: the counter is the
  number of heartbeats answered in a row, `Counted`, and `RequiredStableBeats` of them are the
  whole delay). The inductive invariant `RestInv` adds to
  `ActiveAtRest` what is known of the heartbeat task's own variables (`TaskInv`): an
  answer or a live claim belongs to a task that waits in `claim`, never both at once,
  and a process starts from zero. So only a waiting task can be promoted, and handlers
  only demote.
  In its second part, under `Calm` (no fault but device failures, normal start, `MaxLag <
  UnhealthyThreshold`), `NeverTwoActive`, and `HandoverIsSafe`: every step is a step of
  `SingleActive` or a stutter. `Undisturbed` says that a claim or its answer is on
  its way exactly while the claimant waits for it; `Exclusive` that while an accepted
  answer is under way the peer has given way (`GaveWay`) and cannot count up to its own
  claim before the answer is read, because its `unhealthy` counter is bounded by
  `lag`, and `lag` by `MaxLag`.
* `ProjectStoreProofs`: `StoreTyped`; `NothingLeft` (any number of requests); and
  `AtomicAlone`. `Kept` says at which steps a file may be moved aside; `Apart` that a
  request that is alone has no other beside it; `Atomic` what such a request has done
  so far at each step (`Progress`), which is the strengthening: at `place` and
  `commit` the old package is in the backup exactly if `had_old`, at `restore` the row
  is unchanged, and so on.
* `ConnectionsProofs`: `TypeCorrect` and `OneMemberSpeaks` (`OneSpeaks`), for any number
  of members. `OneSpeaks` speaks of a supervisor that rests; `SpeakInv` adds what
  each of the supervisor's waiting points and of the role task's knows: who may be
  running while a member is stopped or started, where the values are routed then, and
  that no two tasks start members unless `raced` says so.
  About the realtime client, for any sockets, addresses and lists of them:
  `ClientConnectsAsAsked` and `AnimationsRunAsNeeded`, and with the group's types
  `TypesCorrect`. The socket that ends last must leave a timer behind, so
  `RealtimeInv` adds to the types that the socket the client refers to has not ended
  (`Known`), so a client that finds its socket open has one that will end.
* `AlarmEngineProofs`: `TypeCorrect`; `NoAlarmIsLost` (`Accounted`); `OneAlarmOfARule`. For the
  first two, `TypeInv` gives every thread the operations and steps its frame may
  have (`Fits`), and `AccountInv` says that an alarm a thread has removed from `active` and not yet
  kept in `recovered_unacked` is in neither, and that no other thread is about to keep
  it. `OneAlarm` needs `Guarded`, that the read guard of `on_point` keeps
  the rules it works on enabled, and `OneInv`, per rule: the bridge triggers only
  what needs no confirmation (`NeedsNone`), whoever is about to trigger has found no active
  alarm and there still is none (`NoneYet`), so there is one at most (`AtMostOne`). What the timer
  triggers of a rule that has become immediate while its candidate waited is not counted: the
  bridge may trigger the same rule at the same time, and then the rule has two alarms
  (`hasty`, section 5). Operators change every setting at any moment.
* `EditorProofs` states fifteen invariants of `Editor` and its types: of the properties of
  its parts only `HistoryFits` is not proved. `AuthSessionProofs` shows `SessionInv`, from which `SessionIsOfTheUser`, `SessionIsKeptAlive` and `SessionTokensAreValid`
  follow: a call that no logout, login or password change has overtaken was sent for the
  session there is (`InForce`), and the tokens its answer brings are good for the same
  reasons as those of the session (`TokensOnTheWay`, where the answer of the call itself
  no longer counts as the one that will tell). `ProjectSyncProofs`
  shows `SyncInv`, for `NoEditIsLost` and `SyncOverwritesNothingUnseen`, for any number of
  handlers of the dialog under way: every document, list, handler and push is based on a version
  the backend has had (`Past`); a handler that waits to load has its document among the
  backups unless that was removed (`TaskOK`, `Stands`); a project that was deleted is away or
  created again (`RebornOK`); a push under way carries what the optimistic lock will
  compare, and the project it is for is that of the link unless `mixed` (`PushOK`). `ConsoleProofs` shows `ConsoleInv`, for
  `ConsoleShowsSelected` and `ConsoleWritesNothingBlindly`: requests under way are of a kind
  the page makes (`KindsFit`), and while there is no `doubt` a page with writes has at
  most one request under way, what that sends or brings is of the version the backend
  has, and without one so are the rows and the form, unless nothing was loaded into the form
  (`Quiet`). `EditorProofs` takes these over: a behaviour of `Editor` keeps to its
  `part`, whose variables are those of the component's module under the names `v1` to
  `v16` (`SameInit`, `SameNext`).

  The other parts are proved in `EditorProofs` itself. `PointsInv`, for
  `TableShowsReceived` and `TableIsOldForAReason`: a variable that is not defined has no
  value (`Undefined`), so its first import replays what was received; without a
  connection nothing has been fetched (`FetchedNow`); of two requests one has overtaken
  the other (`OneAtATime`); and an answer that is no longer the backend's table has a
  change announced or awaited behind it (`AnswersFit`). `BindingsInv`, for
  `ShapesShowVariable`: each bound shape is in the index, the transition it has leads
  to its variable's value, and without one it shows that value (`Following`); before the
  first value nothing moves (`NothingMoves`).

  `LocalInv`, for `LocalAlarmsStand` and `LocalEventsTell`: the engine is `Good`. Its alarms
  are in the list they belong in (`Listed`) with events that tell what happened to them
  (`Told`), an active one has its rule to itself (`Stands`), and, which the properties do not
  say, a candidate is of the rule as it is and that rule has no alarm yet (`Waits`), unless the
  rule was edited meanwhile. `Point` folds over the enabled rules: `FoldKeeps` shows that such a
  fold keeps an engine `Good` if one rule does. It is an induction over finite sets, and as the
  library's theorems for that take an operator, it goes through the smallest set for which
  the claim fails (`Smallest`, `Least`); `FoldByExists`, `FoldByFits` and `FoldFits` give the
  value of a fold by removing one element, and `FoldLeft` is the one that takes the greatest
  place of what is left.

  `RemoteInv`, for `AlarmsMirror`: each message under way about an alarm has its place among the
  others, from the status before it to the one after it (`InOrder`), and what is shown differs
  from the backend by no more than those messages will change (`ActiveFits`, `ListFits`,
  `RulesFit`). That holds of what is shown once no answer is on its way, and until
  then of the last answer that comes in time (`Settled`). Where nothing is on its way nothing
  differs, which is `Mirrors`.

  `LibraryInv`, for `LibraryReopensTheSame`: in the project's library names differ, only sections
  there are are folded, and an item is in one of them unless it is adrift (`LibraryFits`); the
  store's copy has the same groups and items (`MirrorFits`). Normalising such a library changes
  nothing, shown place by place of the fold that makes names and ids differ.

  `EditorTyped` puts the types of all parts together. Those of `Document` need that undo
  selects only shapes that may be there: `DocumentInv` says so of every command of one
  shape on the stacks (`StacksFit`) and of the drag under way.

Assumptions: `GroupAssumption` (a group has members, thresholds and bounds are positive),
`RealtimeAssumption` (`NoSocket` is no socket; a list of addresses is not empty, as `getUrls`
falls back to the single address), `EditorAssumption` (`None` is no session, project, view or
value, `NoValue` no point's value and `NoRule` no rule; there is a view; rules and alarms are
finite in number and an alarm is of one sort; the lists asked for are the three there are; a
group's id is not a category's key, as `generateLibraryGroupId` begins it with "grp_" and the
key with "builtin:"; bounds are natural numbers). All hold in every instance; TLC evaluates
them. `MCParts` asks for the lists of active and past alarms; the theorem covers that of rules
too. The type invariants of the modules of `faults`, `alarms`, `store` and `connections` are proved and
therefore in no run.

The proofs changed the models in four places. `RemoveBackup` of `ProjectSync` removed every
draft backup equal to the one chosen; the code removes the one with its id, and so
does the model now. `Editor` and `Connections` were separated from `MCParts` and
`MCConnections`, to have their constants' assumptions. The points, values and bounds of
`PointTable` and `Bindings`, and the alarms, lists and bounds of `RemoteAlarms` and
`LocalAlarms`, became constants of `Editor`. Parts of larger definitions of `Library` and
`Document` that proofs speak of were given names (`Others`, `Renamed`, `Recorded`),
with the same behaviours.

Only model-checked: liveness, the liveness half of `HandoverSpec` and `SplitBrainNoticed`
and `SplitBrainHeals` (fairness and ENABLED are beyond the prover); `GuardsMatchSchemas`
(`Contracts` is recursive, and its frames are enumerated); the backend's parts in `MCParts`
(`LinkInStep`, `ConfigInStep`, `Fed`); `HistoryFits`. The last one would
need what `SelectSeq` and `FlattenSeq` do to every scene and what a command's items, undone
one after the other, do to it: induction over data, with operators as arguments, which the provers do not
have. `Editor` fixes the shapes and edits of `Document`, so TLC's check is exhaustive
for documents of that size, and `Pair` gives them two pages.

## 5. Findings

Backend:

* A value that crosses its threshold while the node is Standby raises no alarm after
  the promotion (`promotion`).
* `tick`, `on_point` and a rule edit can block each other for ever (`locks`).
* A rejected push may leave a package on disk that is not the recorded one, against
  the comment at `crates/project/src/store.rs:141` (`race`).
* A split brain lasts while the backup's configuration version is ahead, against the
  design document's section on split brain.
* With instances running on a Standby node (against the design) and late syncs, both
  nodes can stay Standby for ever.
* An alarm acknowledged after its recovery is active again after a restart.
* The split-brain flag of an Active primary is never cleared.
* After a group's failover, a demotion and a promotion the primary runs and its values
  are dropped (`reset`).
* A supervisor that switches or probes while a promotion starts the primary leaves two
  members running, or none until its next switch; one that has started a member on a
  Standby node keeps the promotion from starting everything else (`raced`).
* A member that cannot be started stops the ring: those after it are never tried.
* A primary whose device is mute is failed back to and left again for ever.
* Supervisor and writes use the configuration of the process's start.
* A rule whose delay is taken away while its candidate waits gets two alarms
  (`OneAlarmWhoeverTriggers` of `AlarmEngine`).
* When the rename back fails, a project's package is missing although its row is there
  (`stuck` of `ProjectStore`).
* Requests that edit at once take the same configuration version, one pushed later may be
  applied first, and a push replaces the peer's own `redundancy_config` (`AlwaysInStep`,
  `AlwaysAsStored`, `OwnConfig` of `ConfigSync`).
* Imports, the deletion of a plugin and pushed configurations send no `config_change`.
* A demotion ends what sends to a client and leaves its socket open (`NoClients` of `WsServer`);
  a client that lags, was connected before a demotion or widens its filter shows an old value
  until the next change (`AlwaysFed`).
* The IEC 104 plugin acknowledges nothing after 32768 frames (`AlwaysAcknowledges` of
  `Iec104Link`), panics on a frame that comes in two parts, and takes 70 s to see that the
  station closed the connection.

Editor and console. Each is a case that a property of the runs has to except, or that
its unexcepted form, defined beside it, does not survive when TLC checks it:

* A refresh under way during logout, login or a password change restores or clears the
  session (`LoggedOutStaysOut` of `AuthSession`).
* Two overlapping connections: the close of one is reported while the other is open
  (`StatusIsTrue` of `Realtime`).
* A waiting candidate outlives the edit or deletion of its rule (`RuleStands` of
  `LocalAlarms`); a query narrows the local history itself; the badge of unacknowledged
  alarms depends on the last query.
* The link of a push or an opened project may belong to another document
  (`SyncAlwaysSafe` of `ProjectSync`); an overwrite refused for an old list is never
  reported and never succeeds; a failed autosave is not repeated.
* What is edited while a project is opened or a backup restored is in no backup
  (`EditsNeverLost`); a sync replaces unseen what another engineer pushed after a deletion, as
  versions begin anew (`SyncAlwaysSafe`).
* Grouping takes the children in the order of selection, which may turn their stacking
  upside down, and its undo may leave them in another order.
* Smooth bindings inside groups do not move; entered pages and pasted shapes show old
  values.
* Items saved to a deleted group are in no section; folded sections are unfolded at
  the start; localStorage overrides what the project has unfolded.
* `usePolling.refresh` drops its answer; overlapping loads of a table are applied in the
  order they arrive; the form of `RedundancyConfig` can be saved without having been loaded
  (`NeverBlind` of `Console`).
* A message with `1e999` passes the guards and not the schemas.

Lines and quotations are in `PROJECT.json`.

## 6. Not modelled, and the plan

Not modelled for good: geometry, drawing, SVG import and the remaining views (no state
worth a state machine), byte encodings, spreadsheets, the WASM runtime, the script
evaluator, test servers.

Not modelled yet, in order of importance:

1. Proofs about `Iec104Link`, `ConfigSync` and `WsServer`.
2. A composition of `WsServer` and `Realtime`: several clients, what a demotion means for the
   client's choice of address.
3. `promote` and `demote` in their steps, and the request grouping of the Modbus and OPC UA plugins.
4. In `InstanceGroups`: several groups with ungrouped instances, the routing of writes,
   a configuration that changes.
5. In the editor: several tabs, SOE records, locked shapes and edits inside groups,
   searching and exporting the library, creation of rows in the console, and liveness
   of requests.
