# GE360 Bridge: formal models

GE360 Bridge gives devices access to TCP services behind a WireGuard server. A
Python package (`ge360_bridge/`) runs on the Bridge, another entry point of it runs on a public
relay, and Kotlin code (`android-sdk/`) runs on the devices. State lives in JSON files that
several processes read, change and write back; HTTP handlers, timers, a CLI and background
threads run at the same time. The modules here model the parts in which that concurrency, with
crashes and late messages, decides whether the program is right.

## Inventory

| Component | State | Operations | Interacts with | Hard behaviour | What makes it correct |
|---|---|---|---|---|---|
| Enrollment (`pairing.py`, `pairing_server.py`) | `enrollments.json`, one flock | create, list, consume; cleanup in each | registries, HTTP threads, CLI, dashboard | redeemers racing, crash between files, roll-back, lost response | an invite is answered with one device; addresses, names and group members stay consistent; every request ends |
| Registries and ACL (`core.py`) | `devices.json`, `resources.json` and its mirror, `groups.json` | register, update, remove, rename, revoke, assign; access decision | everyone | no lock: lost updates, crash between two files | a revoked device has no access; no dangling grant |
| Relay server (`relay_server.py`) | device registry on disk, sessions and UDP ports in memory | sync, list, activate, request, status, sweep, pump | Bridge, devices | handlers, sweep and pump threads, expiry at any point, restart | capacity, one session per device, traffic keeps and expiry frees a session |
| Relay client (`relay_client.py`) | the request list of a cycle, the WireGuard endpoint of a peer | sync, monitor cycle, activate | relay, `devices.json`, `wg` | a list that is stale, activations and syncs that are late or lost | the peer points at the active session; revocation reaches the relay |
| Relay fallback (`RelayFallbackClient.kt`, `BridgeSession.kt`) | session and poll count | request, poll, connect, give up | relay | lost calls, a change of network | the device is told the truth about its own session |
| Self healing (`self_healing.py`) | `self_heal_state.json`, one flock | run for all or one resource, dry run | `systemctl`, health engine, registry | timer and CLI at once, crash around a restart, clock changes | restarts are limited per window and remembered |
| P2P traversal (`p2p.py`, `TraversalClient.kt`) | sessions in a file, peer endpoint | prepare, attempt, expire | `wg`, device | attempts of one peer overlapping, restore of an old endpoint | the endpoint is one that works, or the previous one |
| Update engine (`update_engine.py`) | installed files, history, roll-back archives | apply, roll back, prune | backup, systemd | crash or error half-way | old or new version, never a mix |
| Backup (`backup.py`) | archives, all configuration files | create, prune, restore | all files | files written during the snapshot, half a restore | a restored state was a state |
| Proxy daemon (`daemon.py`) | admitted addresses, read once | accept, forward | ACL | stale admission | a revocation takes effect |
| Android controller, app (`AndroidWireGuard.kt`, `MainActivity.kt`) | tunnel state, generation counter | connect, retry, stop, fall back | network callbacks | retries against stop | no connection after the user stopped |
| Multi-server (`multi_server*.py`) | peer catalog | register, sign, probe | other Bridges | failover order | the catalog is one the Bridges signed |
| Health, agent (`health.py`, `agent.py`) | a cached report | check | network | stale cache | age is bounded |
| Dashboard, CLI | none of their own | call the others | all | they are the concurrent callers | - |
| Audit, metrics, launcher, discovery, diagnostics, doctor, NAT discovery, installers | append-only logs, or none | report | system | - | not modelled: nothing reads them back, or they keep no state |

`PROJECT.json` lists each component with its files and each hazard at its line.

## Modules

- `Ledger` - what pairing promises of its invites; `Enrollment` - pairing with the registry files and their unlocked writers,
  which implements it.
- `Rendezvous` - what the relay promises of its sessions; `Relay` - relay server, Bridge monitor and sync, devices: the
  composition of three programs, which implements it.
- `Registry` - the registry files under administrators who overlap, with what is derived from them: the proxy and the peers.
- `SelfHeal` - rate-limited restarts.
- `Switch` - what an update promises; `Update` - the update engine, which implements it.
- `Backup` - backups, pruning and restores that overlap.
- `Traversal` - NAT traversal on the Bridge.
- `Controller` - the device's tunnel: the SDK's controller composed with the app's ladder of routes.
- `MC...` - instances for TLC (symmetry, functions a `.cfg` cannot write); each `.cfg` is one question.
  `...Proofs` - theorems of the module they extend.

Actions of one module that speak of one file or handler stand together; a definition that starts with "Mutant" in
its comment is a plausible bug of the definition that follows it, and no specification uses it. With it in the
place of that definition, a named property fails.

### Enrollment and Ledger

`enrollments` maps an invite to its record; `"dropped"` stands for a record the retention has
removed, so that an invite is never issued twice (ids are random in the code). `devices` and `groups`
are the registry files with the fields that matter: id, name, VPN address, the invite a device came
from (history), the group names and assignments. `pc`, `req` and `mem` are the threads of the enrollment
server inside `consume_enrollment`, with one action per access to a file:

    Arrive -> Acquire -> Reject | RejectTaken | CheckName -> ReadGroups -> PickAddress
           -> ReadDevices -> SaveDevices -> SaveGroups | RollBack | FailLate -> Mark | FailLate -> Respond | LoseResponse

`Abort` is every exception before `devices.json` is saved, a read or a write that fails included. After it an exception is either rolled back
(`RollBack`) or not (`FailLate`): the roll-back's own save raises, or the save of the invite does, which no roll-back covers; the lock is
released, the device stays and its invite is open. `cut` records the devices of redemptions that ended so, or with the death of the
server, between the two saves; `NoOrphanDevice` excepts those devices and no other. `PrepareInvite` and `IssueInvite` are
`create_enrollment` before and under the lock. `ReadRegistry`, `WriteDevices` and `WriteGroups`
are the operations of `core.py`, which take no lock. `Crash` kills the server at any point; the kernel
frees the flock. The token, keys, PSK and metadata are abstracted to "the client knows the token".

The code does lose updates when two unlocked writers overlap; `interfered` records that this happened, and
three properties speak of the behaviours where it did not. The others hold with any overlap.

`Ledger` knows no file, lock, handler or crash. An invite is opened for a name that no other open invite has (`Issue`), used in
one step (`Use`), owes one answer at most, with a device that no other invite owes or was answered with, and is answered (`Answer`)
or not (`Lose`); time passes over the others (`Ages`), and nothing reopens them. `Enrollment` maps to it by the records
(`State`, `OpenName`), by `granted` and by `Due`: an answer is owed from the write of `enrollments.json`, where the invite becomes used, to
the response, and is kept by the handler between the two. All that comes before that write - the address, the device,
the groups, a roll-back - is a stutter of the ledger. `ImplementsLedger` says every behaviour of `Enrollment` is one of `Ledger`.

### Relay and Rendezvous

`sessions` keeps every session ever created; the code's `_sessions` is `Open(sessions)`. A session number
is used once, as its random id is. `threads` are the HTTP threads, `lock` the holder of `_sessions_lock`. `cleanup_sessions`, with which
`create_session`, the status, the list of requests and the loop of `serve()` (`Sweep`) begin, is two steps under that lock: `Decide` notes in `doomed` the
sessions that have expired, `Remove` closes them, and between the two the clock moves and datagrams come. A cleanup that finds nothing expired
changes nothing and is one step with what follows. `create_session` is two more (`CheckCapacity` with the end of the cleanup, `EndCreate`)
since it reads the clock twice. `Reply` builds the answer after the lock is released. `Pump` is an admitted datagram, which updates
`last_activity` without the lock: a session that has become busy again after the decision is closed all the same. On the Bridge, `todo` is the list a monitor works
through, `calls` are activations on their way, `syncs` registry payloads on theirs, `endpoint` is the
relay session a WireGuard peer points at. `LeaveRelay` is WireGuard's roaming, outside the code.
`skewed` records that a session expired between the cleanup and the lookup of one call.

Abstracted: ports and sockets (an open session has its two ports; closing frees them; a failed bind is the last
disjunct of `EndCreate`), the peers a pump learns, tokens, the order of the request list.
The sync the monitor makes itself in each cycle is one of `Syncers`.

`Rendezvous` knows no thread, lock, call or clock. A session is booked for a device (`Book`), if there is room and the device has no session in
time; the Bridge points the device's peer at it and asks for its activation in one step (`Point`), and only then it may become ACTIVE
(`Activate`) or the request may go amiss (`Miss`); in `Age` it may be condemned if it is overdue, and end if it is condemned, or it ends in `Restart` with all others; a device is told
of no ACTIVE session but its own (`Tells`). `Relay` maps to it by the sessions (`Stage`, `Owner`), the Bridge's calls and endpoints, and what
each client holds (`ToldActive`); those that are condemned are `doomed`. `Overdue` is written from the lifetimes of `RELAY.md:240-248`, apart from the code's `Expired`; when
a session becomes overdue is left to `Relay`, and `restarts` is seen on both levels, so that nothing else may close a session in time.

### SelfHeal

`run` is a process in `run_self_heal`, `file` the stored attempts, told apart by a number when their times
are equal, as the entries of a list are. `Count` is `heal_resource` up to the stored attempt and
`Restart` the call of `systemctl`: between them the process may die. Health, the outcome of `systemctl` and
the edits of the registry (`Configure`) are free choices. `restarts` is the history of the restarts made, each under the
time it was counted. `_load_state` takes a file that it cannot read or parse for an empty one (`Load`); the run then counts from zero, and writes over the
file when it stores an attempt or ends, in a dry run too. What such a run forgets is added to `forgotten`: both properties except these
attempts, and hold of all others, those counted after the failed read included.

### Registry

`conf` holds the four files of `core.py` (`services.json` is the mirror of `resources.json`), `torn` those that cannot be parsed, `tmp` the one temporary file
each has, `daemon` the proxy and `peers` wg0's. An administrator - a command or a thread of the dashboard - has in `run` what it
will still do: the file it writes with its new contents, computed from what it read when it began, then its tasks in the
order of the code:

    Operate: SetEnabled Rename SetOverride Register UpdateResource Remove ChangeGroup Sync
    writes:  Open -> Write -> Replace | Raise      tasks: FollowRename | StripGroups -> ReadPeers -> WritePeers -> Reload

`Open`, `Write` and `Replace` are the steps of `_atomic_write`. Two writers of one file share the temporary name: the second to open it empties what the first
has written (`Empty`); if both write, the end of the longer text may remain behind the other (`Mixed`); one may replace the file with what the
other has emptied or written, or is still to write, who then writes the file in place or one that nobody sees (`handle`), and at last finds
the temporary file gone and fails (`Raise`). A file put in place so is `torn`; whoever reads it fails, the proxy at its start too (`DaemonFails`), and systemd
starts it again. `ProxyEnforces` says that no registry is left torn once all operations have ended without an error. `Die` ends an operation anywhere. `DaemonReads` and
`DaemonServes` are the start of the proxy, which may be restarted in between. `Allows` is `resource_access_source` as a predicate,
`Admitted` the addresses `daemon.py` computes from it. `meant` records which permissions were given and taken, by device rather
than by name. `overlapped` and `cut` record that two operations ran at one time and that one ended half-way.

Abstracted: addresses, keys, ports and targets; expiry is a set of devices whose time has passed; groups exist from the start.

### Update and Switch

`file` gives the release each file is of, `stale` the services not restarted since a file changed, `told` the outcome in
`last-update.json`. `run` is a process in `apply_update`:

    Start -> Preflight | Refuse -> BackUp -> Snapshot | Abort -> InstallFile* -> Installation -> RestartService*
          -> Healthy -> Record | LoseRecord        any of them: Fail -> UndoFile* -> Restored -> Reconfigure | FailBack -> Record

`Crash` kills it between any two steps, `Reboot` starts every service anew, `Prune` takes its backup away. `mine` is `__version__` as the process loaded
it, which is why a process that waited for the lock may install an older package over a newer one.
`Switch` knows none of this: the release in force changes in one step (`Succeed`), or does not (`Undo`), or is told
to be broken (`Break`, the only step after which files may be of two releases). The refinement `Abstract` maps what is in force to
the snapshot of the holder of the lock while it changes files, and to the files otherwise; `ImplementsSwitch` says every behaviour of `Update` is one of `Switch`.

### Backup

`conf` are four of the configuration files - those whose contents `validate_snapshot` relates to each other, and an optional one.
`run` is a worker in `create_backup`, scheduled or not, or in `restore_backup`, which calls it for its safety backup:

    Read* -> Check | Reject -> Store -> List | Vanish -> Unlink* | UnlinkFails -> Pruned -> Report | ReportFails     Restore -> [backup] -> Write* -> Finish

`seq` orders archives as their mtime does. `Edit`, `EditWrite`, `EditStrip` and `EditEnd` are the operations of `core.py` that write several files,
one after the other, and may stop between two. `raced`, `missed`, `disturbed` and `robbed` record what the properties must
except; each is named at its declaration.

### Traversal

`session` is `_SESSIONS`, `attempts` is `_DEVICE_ATTEMPTS`, `thread` the thread `_delayed_attempt` of each session, `peer` what `wg` shows. Each command
to WireGuard is a step that may fail, with the outcome the code gives a failure (no endpoint, no handshake, or an exception). `Handshake` is the device,
`RestartWireGuard` what `device-sync` does, `Restart` the restart of the service. The history has three exceptions: `mixed`, an attempt that
began while another of the device was probing and takes the keepalive 5 of that one for the one to put back; `lame`, a peer that could not be put back, since the
command failed or the process ended; `abandoned`, an exception after the handshake without a previous endpoint, where the code tries nothing (`Retreat`).
Attempts that overlap otherwise - the second begins before the first probes, or when it has ended - are covered. A restart of WireGuard forgets
what ended attempts have left, and with it the exceptions.

### Controller

Four threads: `thread["main"]` (the app's), `thread["worker"]` (the app's single worker), `thread["net"]` (network callbacks), and
`exec` with its `queue` and the one `delayed` retry. `want` are `desiredConnected`, `currentConfig` and `retryAttempt`, `store` the
`SecureTunnelStore` as the process sees it, and `disk` what the next process may find of it: `save` commits, `setDesiredConnected` and `clear` apply, and
a death (`Die`) may lose what was applied. A method with a lock section and something after it is two steps: `ConnectSmart` / `Start`, `Stop` / `SubmitDown` (/ `Clear`
for `forget`), `Restore` / `RestoreWant` / `Start`. The user connects again (`Connect`) or pairs to connect: `Pair` on the main thread, `Provision` on
the worker, and `Paired`, which connects whatever the user has chosen meanwhile. `Take` ... `Again` is `connectAttempt`; its `internalTransition` is `Internal`. `probe` is a probe that is
scheduled and `current` whether the one under way is of the latest generation. `FallBack`, `FallBackToRelay` and `NoFallback` are the
`when (route)` of `probeReachability`; what they start is `Prepared` or `Requested`, `startTransient` after a long call.
`Drop` is Android taking the tunnel away, `Die` the death of the process, `Close` the end of the activity and the next one. Choices of the user
and events of the system are what `MaxChoices` and `MaxEvents` bound; one pairing at a time is a bound too.
`mishaps` records what `DisconnectHolds` excepts: `revived`, a wish for a connection that comes back after a disconnect - a fallback or a pairing that was under way, or
a death before the disk had the disconnect -, and for the tunnel alone `left`, a call to take it down that failed or an activity that ended
before the call (the store must say "not wanted" all the same). `retryAttempt += 1` is taken as one step; a commit of the
store succeeds. An attempt that is cancelled stays in `queue` and does nothing when its turn comes, as `cancel(false)` leaves it.

## Runs

| Run | Shows | Bounds |
|---|---|---|
| `enrollment` | `OneGrant`, `AddressesUnique`, `MembersRegistered`, `NoOrphanDevice`, `TerminalIsFinal`, `ImplementsLedger` | 2 invites, names and handlers, 1 inviter, 1 administrator with 1 edit, 2 requests, 1 crash, 1 tick with lifetime 1 and retention 0, 3 hosts |
| `enrollment_live` | `RequestEnds` | the same with one name, without symmetry |
| `relay` | `WithinCapacity`, `OneSessionPerDevice`, `ActiveNotShadowed`, `ToldTheTruth` | 2 devices, 3 sessions for a capacity of 2, 2 threads, 1 monitor, 3 requests, 1 poll each |
| `relay_live` | `ImplementsRendezvous`, `ExpiredIsReclaimed` | 1 device and session, idle 1 < waiting 2 < lifetime 3, 4 ticks, 2 of moves, restarts and revocations, a sync |
| `relay_revoked` | `RevokedStaysOut` fails | small |
| `self_heal` | `RestartsLimited`, `RestartsRemembered` | 2 runners, limit 2 in a window of 2, 2 ticks, 2 crashes or failed reads, 1 clock change |
| `update` | `Undoable`, `ImplementsSwitch`, `UpdateEnds` | 2 updaters, 3 files of which one is new in a release, 3 releases, 2 services |
| `registry` | `ProxyEnforces`, `PeersEnforced`, `FilesAgree`, `OverridesMeant` | 2 administrators, 2 devices, 3 names, 1 resource, 1 group; 3 operations that end well one after the other, 2 of any other kind |
| `backup` | `RestoredWhole`, `Recoverable`, `RetentionKept`, `DailyOnce` | 2 workers, 3 backups or restores, 1 archive kept, 1 edit, 1 tick, 1 resource, registered and granted at the beginning or not |
| `traversal` | `SuccessIsFresh`, `NoProbeLeft`, `AttemptsEnd` | 1 device, 2 sessions, lifetime 2 and window 2 of 3 ticks, 1 ping |
| `controller` | `DisconnectHolds`, `WantedIsServed`, `DisconnectEnds` | 2 choices of the user (pairing included) or lives of the app, 1 event of the system, 2 attempts |
| `controller_intent` | `IntentKept` fails | 1 choice, no event |

Each passing run also checks the module's `TypeOK`, whose members say more than a type where the code makes a promise: the archives of `Backup` are
valid, a poll count ends, a registry file keeps contents of its own.

Why these are enough. Two handlers show every race for the lock, for a name and for an address; a second invite is
needed for a name to be contested; one tick with lifetime 1 and retention 0 lets an invite
expire, and its record be dropped, between any two steps. In `relay` both timeouts are 0 and there is one
tick, so that a session may expire at every point, also inside `create_session`; two devices contend for the
capacity, and a third session lets a session be replaced while the monitor still holds the old one. The lifetimes
proper are the matter of `relay_live`, where the three differ; its one session exercises the ends - with datagrams between the decision to close it and
its end -, the activation and what the device is told, while bookings that compete are the matter of `relay`, and of the theorem `Refinement`, which has any number of
devices and sessions. Limit 2 in a window of 2 ticks has a full window, its edge
and the time after it. `update`: two updaters contend for the lock; the package of release 2 brings a file that does not exist before
and that release 3 does not bring, so a roll-back has a file to delete and one to leave alone; two services may be of two releases.
`registry`: rename, override and removal are three operations, enough for an override to be left behind and to reach another
device; the third name lets a name be free; two overlapping operations show every interleaving of two writers of one temporary file, and what it
leaves there. `self_heal`: two faults are a crash and a failed read in either order, or two failed reads. `backup`: a kept
archive, the one that replaces it and the safety backup are three, and one is pruned while another is restored. `traversal`: two
sessions are needed for one attempt to follow or meet another; three ticks outlast the lifetime and the window, with one prepared
session per window, so that the second may also come after the first has expired. `controller`: connect then disconnect (or forget,
or the other way round) with one event - a lost network, a drop, a lost consent - at any point and the whole ladder behind it;
two attempts have a retry and a last failure. The intervals of retries do not matter: `delayed` is due at any time.

`MaxClock`, `MaxAsks`, `MaxArrivals`, `MaxEdits`, `MaxUpsets`, `MaxSteps`, `MaxCrashes`, `MaxFaults`, `MaxTime`, `MaxOps`, `MaxMixed`,
`MaxChoices` and `MaxEvents` bound a run only; the proofs hold for all of them. Deadlock is checked except in `backup` and in the two runs of
`controller`: a directory with nobody at work on it, or a device at rest, does nothing once the bounds are used up.

**Fairness.** `Enrollment`: a thread of a live server keeps running (weak fairness of its steps), and the kernel
serves the waiters of an flock (strong fairness of `Acquire`, since the lock comes and goes). Nothing is
assumed of clients, administrators or the clock. `Relay`: server threads run, those that list requests for a monitor too, and the loop of `serve()` sweeps every five
seconds and ends its sweep (strong fairness of `Sweep`, since the lock comes and goes; weak fairness of `EndSweep`, which holds it). Calls of the Bridge and of devices, and datagrams, owe nothing. `Update`: a process that
runs goes on (weak fairness of `Step`), since every `subprocess.run` and download has a timeout; `Traversal`: likewise the thread of each
session. `Controller`: the main looper and the executor go on with what is queued (weak fairness of `Run` and of `Serve`); nothing is
assumed of the user, of Android, of the network or of the fallbacks.

## What the code does and its documents do not say

Kept as runs:

- `relay_revoked`: `docs/RELAY.md:161` says a revoked device is disabled at the next full sync. Payloads carry no version:
  an older one that arrives late enables it again, until the next sync.
- `controller_intent`: `docs/ANDROID_CONNECTION.md:132` says Disconnect stores `desiredConnected=false`. A fallback that is waiting for the relay or the Bridge
  looks at its generation before it begins and not after; its `startTransient` stores `true` and starts the tunnel after the user has disconnected.

Met by TLC in these models, and left to this list. The properties that pass say in their history variables that they except them:

- `docs/PAIRING_PROTOCOL.md:90` has the record pass atomically to `used`. `devices.json` is written before `enrollments.json`: after a crash
  between the two the invite is open, and once its device is renamed it yields another one. (`OneGrant` holds all the same: only one
  of them was answered.)
- `docs/SELF_HEALING.md:53-55` gives a strict limit per window. Attempts are dated by the start of their
  run, so a slow run restarts later than it records; and a state file that cannot be read once (`self_healing.py:31`) counts as empty and is
  written over, after which the limit begins anew.
- `pairing.py:292` and `298` may raise after `devices.json` was saved: the device stays, its invite is open, without a crash.
- `docs/RELAY.md:240-248` ends a session that is silent for its idle time. A datagram that comes after the cleanup has decided
  (`relay_server.py:339`) does not save it, although it is not silent any more when it is closed.
- `docs/RELAY.md:232` limits the client side to the address of the request. A session that is reused keeps the address of the first one.
- `docs/RELAY.md:271-272` go from "sees ACTIVE" to "starts WireGuard". The answer to the last poll is not looked at.
- Two operations on the registries that overlap lose one of two changes (a revocation too), and may leave `services.json` unlike
  `resources.json` or a revoked device among the peers until the next rendering. The one of them that fails, or dies, may leave a file that nobody can read
  until it is put right by hand.
- Two scheduled backups that run at one time make two dailies; a prune that meets another ends with an error, after which more are left.
- `docs/P2P_TRAVERSAL.md:157` has a peer without a previous endpoint stay with keepalive 0. After a handshake and a failing `wg set` it stays with 5
  (`p2p.py:486-491` puts back only a previous endpoint). An attempt that begins while another one of its device is probing may leave that keepalive too, or the candidate of the failed one.
- An updater compares its package with the `__version__` it loaded before it waited for the lock (`update_engine.py:303-317`), so it may
  put an older release over a newer one.
- On the device: a pairing that is answered after Disconnect connects (`MainActivity.kt:273-290`), and a process that dies right after Disconnect may restore the tunnel,
  since `desiredConnected=false` is stored by `apply` (`SecureTunnelStore.kt:37`); `close` after `stop` may discard the task that takes the tunnel down; a tunnel that drops while the executor is at work is not
  noticed; the DISCONNECTED of a stop may overwrite a WAITING_PERMISSION that came after it.

## Proofs

All hold for any sets of actors, any timeouts and limits and any bounds; the assumptions are the named
`ConstantsAssumption` of each module (naturals where the code has numbers, `None` no member of the other sets, a
finite set of sessions, a window and lifetimes above zero). TLC evaluates them in the runs.

- `EnrollmentProofs`. The properties are not inductive alone: a handler answers from what it read when it got the lock. `IInv`
  adds that a handler is past the lock exactly if it holds it, that its copy of the invites is the file cleaned at the request's
  time, that its invite is still pending there, that an invite being answered is already terminal and not answered before,
  by no other handler, and that an answered invite is terminal. `OneGrant`, `PendingNamesUnique` and `TerminalIsFinal` follow.
  A second invariant rests on it: while no edit has overlapped, what a handler has found out about the registry files at each of its
  control points (`Informed`) is still so, and each device is the one its invite was used for or that of the handler which holds
  the lock, or in `cut` (`OrphanInv`). From it `AddressesUnique`, `MembersRegistered` and `NoOrphanDevice`. A third (`LedgerInv`) says that each device id
  drawn is in the hands of one handler, or of one answer, and of nobody else. It is what `Use` needs; `Refinement` maps
  each step to one of `Ledger` or to a stutter, and is about `Abstract!Spec`, the formula TLC checks. `PendingNamesUnique` is proved only: the
  run checks it as part of `Ledger`.
- `RelayProofs`. `IInv` has three parts. `ServerInv`: one thread is between the capacity check and the creation, and the
  room it saw is still there, because only that thread may open a session. `ShadowInv`: while a session is open,
  nothing the Bridge has listed, called or pointed an endpoint at is a rival session of the same device. It is inductive only
  with "was created" for everything the Bridge holds: a new session is then unknown to it. `TruthInv`: what clients and answering threads
  hold of a session. `WithinCapacity`, `OneSessionPerDevice`, `ActiveNotShadowed` and `ToldTheTruth` follow. `BusySessionsSurvive` is a property of steps: the
  types are enough for it: what decides compares one clock with the times of the session, and what closes looks at the decision only. It speaks of the
  decision, since a datagram after it saves nothing. It is proved only; the run checks it as part of `Rendezvous`. `Refinement` maps each step to one of `Rendezvous` or to a stutter. Most are `Age` (`AgeRefines`), from what a step
  does to the sessions (`Ends`) and to the clients (`Hears`); a creation is `Book`, from the room `ServerInv` keeps; it also needs
  that an answer goes to the device that called (`TruthInv`) and that a thread is at work for a device (`Owned`).
- `SelfHealProofs`. `IInv` speaks of attempts, the restarts made and those begun, apart from those in `forgotten`: as long as the clock is not set back each one that
  still counts is in the file and in the lock holder's copy, none lies in the holder's future, and no window holds more than the
  limit. The copy never holds more than the file. `RestartsLimited` and `RestartsRemembered` follow, and two facts no run repeats: only the holder of
  the lock is at work (`LockIsHeld`) and what is added to the file was counted by a run that is not dry (`DryRunsAddNothing`). The limit needs finiteness
  and cardinalities of windows that slide with time.

- `UpdateProofs`. `OneInstaller` is the inductive core: only the holder of the lock is past the preflight. With it `Undoable` is inductive, and from
  both follows `Refinement`: the initial states map to those of `Switch`, and each step of `Update` to one of its steps or to a
  stutter. The theorem is about `Abstract!Spec`, the same formula TLC checks.
- `RegistryProofs`. `IInv` says what each operation has still to do when it has written (`Ends`: reload, and render if it changed devices),
  hence that the proxy either admits what the files say or is about to be restarted by someone (`ProxyInv`), however operations overlap.
  `TornInv` is about the shared temporary name: as long as none has failed or died, a file is torn, or was put in place by another than who wrote it, only while more
  operations have opened its temporary file than can put it in place (`Excess`), so that one of them must fail; it counts those operations. With it
  every file is readable once all have ended well, and `ProxyEnforces` says that too.
  For operations that do not overlap (`Alone`: at most one is at work) the same holds of the peers (`PeersInv`). `ProxyEnforces` and
  `PeersEnforced` follow. An operation writes up to three files, and between them they disagree; `FilesInv` therefore speaks of what they will
  hold once the one operation at work is done: that is consistent (names, grants, overrides against devices and resources), and its
  later steps leave it unchanged. `FilesAgree` and `OverridesMeant` follow once nobody is at work.
- `BackupProofs`, one invariant for each property over the common types. `Written`: the files up to a restore's next one are those of
  its archive. `DailyInv`: a scheduled backup at work is the only one, and its date has none yet. `KeepInv`: what is left when everyone
  who prunes has finished (`Left`) is no more than `Keep`, or someone is still to list the directory; it needs that a finite set of
  archives of which each has fewer than `Keep` newer ones has at most `Keep` (`PruneKeeps`). `Safe`: a restore's archive is there until its safety backup
  is stored, then that one, as long as an archive of its name is, which is what the code looks at last.
- `TraversalProofs`. `Fresh` of each session: what a thread remembers of the last handshake and what WireGuard shows agree
  until a new handshake is made, except when WireGuard was restarted, or a look at it failed, and then the value is 0. `Clean` of each
  device that is not excepted: the keepalive may be that of an attempt only while a thread is to take it away (`Owes`), and no thread at work has it
  to put back. `SuccessIsFresh` and `NoProbeLeft` follow.
- `ControllerProofs`. `Held`: once the user has disconnected, and nothing has revived the wish, nothing wants a connection and nothing stored would restore one,
  and, unless a call failed or the activity ended, as long as the tunnel is up, or an attempt might still bring it up, a task that takes it down is to come (`ToCome`).
  What makes it inductive is the one executor: the task of `stop` is behind the attempt in the queue, and cancelling an
  attempt does not remove that task. `DisconnectHolds` follows, for a queue of any length. `ServiceInv` is its counterpart for a tunnel
  that is wanted: if it is not up with the configuration asked for last, then an attempt is queued behind every task that takes
  the tunnel down, or the executor is at such an attempt, or a retry is due, or the failure is told. `WantedIsServed` follows.
- Only the steps of the code are assumed: no theorem relies on fairness.

Only model-checked: `RequestEnds`, `ExpiredIsReclaimed`, `UpdateEnds`, `AttemptsEnd` and `DisconnectEnds`, since liveness
under fairness is out of the reach of the prover, as are `ENABLED`, induction over data and recursive operators. Every
other property of a passing run is a theorem.

## Not modelled

Cryptography, TLS, HTTP parsing and authentication beyond "accepted or not"; forms, text and logs. `Registry` has the steps of
`_atomic_write`; the other modules take it as one step, which their locks justify for files of their own, and no module lets a temporary file be cut short by a full disk. That systemd gives up on a proxy
that fails again and again. A `SecureTunnelStore.save` that fails; a controller that is used after its activity was destroyed. Left out of the registries: removing a device (no
operation does it outside the roll-back of `Enrollment`), creating and removing groups, renewing an expiry, upgrades of old
files. The attempt limiter of the enrollment server, which only refuses. Downloads and the format of packages; `Update` takes a package as
given. The device's half of traversal and the choice of the Bridge's own candidates; the mirror of sessions on disk, which nothing reads to decide
anything. Forwarding, the status endpoint and the monitors of the proxy. The app's catalog and its display. The multi-server catalog, the caches of
health engine and agent, and the parts that only report keep no state that two actors change; `PROJECT.json` gives
the reason for each.

## Plan

1. `Enrollment` with `Ledger`, `Relay` with `Rendezvous`, `SelfHeal`, `Registry`, `Update` with `Switch`, `Backup`, `Traversal`, `Controller`: built and checked.
2. Proofs: every safety property of the runs, and the refinements of `Ledger`, `Rendezvous` and `Switch`, are theorems. Left: abstract
   specifications of `Backup` (an archive is stored, restored and pruned at once) and of `SelfHeal` (a limited counter), and their refinements.
3. The catalog of `multi_server.py` and the caches, if they come to be written by several actors.
